---- MODULE Spec2Model ----
(***************************************************************************)
(* A model of go-dcb, a distributed circuit breaker.                       *)
(*                                                                         *)
(*   Spec      the breaker (schema.go, the current CircuitBreaker) over a  *)
(*             working state store and the local critical-section runner   *)
(*             (MemoryCache.RunCritical, one mutex): several callers Fire  *)
(*             one circuit ID while Isolate and Reset are issued and time  *)
(*             passes.  A critical section is one atomic step, which is    *)
(*             what the mutex makes of it.                                 *)
(*   LockSpec  the Redlock critical-section runner (RedLock.RunCritical,   *)
(*             lock, unlock) over three key-value instances, with          *)
(*             several processes running critical sections on one ID.      *)
(*   StoreSpec Spec over a store (ReditCache) whose Get and Set can fail.  *)
(*   AttemptSpec  one caller's Fires with trigger in full: every attempt   *)
(*             is a goroutine that can return late or panic; the breaker   *)
(*             is the static or the dynamic one.                           *)
(*   EventSpec the critical sections of Fire, Isolate and Reset with the   *)
(*             mutex of MemoryCache.RunCritical spelt out, the sends on    *)
(*             the unbuffered event channels as rendezvous with the        *)
(*             handleEvents goroutine, and Destroy.                        *)
(*   BuildSpec the constructors: NewCircuitBreaker, its dynamic variant,   *)
(*             and the backoff policies Fixed and Exponential with their   *)
(*             Duration() calls.                                           *)
(*   LiveSpec  AttemptSpec without panics, with weak fairness on every     *)
(*             step of a Fire: a blocked select wakes up, a critical       *)
(*             section is entered.                                         *)
(*   NestedSpec  EventSpec with an event callback that itself calls        *)
(*             Isolate on the breaker.                                     *)
(*   RecoverSpec  the breaker from a record that has just tripped, with    *)
(*             an operation that succeeds and Fires issued one after       *)
(*             another after the grace period, under weak fairness.        *)
(*   BackoffSpec  Fires made one after another on a breaker whose backoff  *)
(*             is an Exponential policy, with trigger's Duration() calls.  *)
(***************************************************************************)
EXTENDS Integers, Sequences, FiniteSets, TLC

\* ---------------------------------------------------------------- bounds
MaxFires == 3      \* Fire calls made in a behaviour
MaxManual == 2     \* Isolate / Reset calls made in a behaviour
MaxTime == 3       \* the clock stops here

\* the callers of Fire, the circuit IDs, and the options the breaker is built with
Callers == {"c1", "c2"}
IDs == {"x"}
Thresholds == {0, 1}
Retries == {0, 1, 2}

\* the goroutines that call Isolate and Reset where the mutex is spelt out, and all
\* the goroutines that run critical sections there
Admins == {"m"}
Users == Callers \cup Admins

MaxRuns == 2       \* RunCritical calls made in a behaviour

\* the processes sharing the lock, the redis clients of the RedLock, the
\* retryCount options, and the sets of failing instances
Procs == {"p1", "p2"}
Clients == {"r1", "r2", "r3"}
RetryCounts == {1, 2}
Downs == {{}, {"r3"}, {"r2", "r3"}}

\* no lock key on an instance
NoKey == [val |-> "", by |-> ""]

\* ------------------------------------------------- schema.State (iota)
Closed == 0
Open == 1
HalfOpen == 2
Isolate == 3

\* time.Time{}: the zero time; and the Duration that Sub saturates at, in
\* milliseconds (2^63-1 ns in the code, cut here to the largest 32-bit integer)
ZeroTime == 0
MaxDurationMs == 2147483647

\* the breaker under check is built with the option GracePeriodMs(1)
GracePeriodMs == 1

\* the results an attempt of the wrapped operation can send on the result channel
Outcomes == {"ok", "errFail", "errPass"}

\* what the wrapped function can return: a value that is nil or not, and an error
\* that is nil, or one failCondition holds of, or one it does not hold of
Values == {"nil", "val"}
Errors == {"nil", "errFail", "errPass"}

\* an empty channel buffer
NoItem == [res |-> "none", err |-> "none", rawRes |-> "none", rawErr |-> "none", late |-> FALSE]

VARIABLES
    lookup,      \* the state store: ID -> Circuit, for the IDs that have a record
    now,         \* time.Now(), in milliseconds
    threshold,   \* options.threshold
    retry,       \* options.retry
    pc,          \* each caller's position in Fire / trigger
    circuit,     \* of the *Circuit getOrSetState returned to the caller's Fire, the
                 \* field Fire reads: State
    tryCounter,  \* trigger's tryCounter
    handler,     \* trigger's handler variable
    started,     \* launches of the wrapped operation in the caller's current Fire
    emitted,     \* the events the latest step sent on circuitChan / fallbackChan, in order
    ret,         \* what the latest step returned to its caller, "none" if it ended no call
    fires,       \* Fire calls made
    manual,      \* Isolate / Reset calls made
    opens,       \* Open events sent so far
    consec,      \* handleFail runs since the last handleSuccess run
    clean,       \* nothing but record creation and handleFail runs has touched the store
    \* ---- the Redlock runner
    retryCount,  \* RedLock.retryCount
    down,        \* the clients whose instance fails every Eval
    keys,        \* per client, the lock key: its value and who set it, or NoKey
    lpc,         \* each process's position in RunCritical / lock / unlock
    i,           \* lock's loop counter
    pending,     \* the clients whose lockInstance / unlockInstance has yet to run
    success,     \* lock's success counter
    lockErr,     \* what lock returned to RunCritical
    runs,        \* RunCritical calls made
    expired,     \* a lock key has reached its expiry
    \* ---- the attempts of trigger
    dynamic,     \* the breaker is a CircuitBreakerDynamic
    result,      \* trigger's result variable: 0 for nil, else the attempt that made the channel
    box,         \* the buffer of the channel result refers to: NoItem or one fnResult
    live,        \* the goroutine of the caller's current attempt is running the operation
    stale,       \* goroutines of the caller's timed-out attempts still running the operation
    failCommits, \* handleFail runs made for the caller's latest Fire
    \* ---- the event worker and the critical sections under the mutex
    mutex,       \* MemoryCache.mutex: the caller that holds it, or "none"
    epc,         \* each caller's position in Fire / Isolate / Reset
    todo,        \* what is left of the caller's critical section: sends and the Set
    sec,         \* the number of the caller's critical section, 0 outside one
    sections,    \* critical sections entered
    blocked,     \* the caller has reached the send at the head of todo and waits
    sent,        \* the events sent, in the order the sends were reached
    called,      \* the callbacks handleEvents invoked, in order
    commits,     \* the critical sections that stored a record, in order
    chansClosed, \* exit, circuitChan and fallbackChan are closed
    worker,      \* handleEvents: "running", "strayed" or "returned"
    destroys,    \* Destroy calls made
    destroyRet,  \* how the latest Destroy call ended: "none", "ok", "panic"
    \* ---- the RedLock as constructed, and lock's validity
    rlOptions,   \* the options NewRedLock was given: the fields they set
    retryDelayMs, \* RedLock.retryDelayMs
    driftFactor, \* RedLock.driftFactor, in hundredths
    ttlMs,       \* RedLock.ttlMs
    validityTime, \* lock's validityTime, of the attempt the process decided last
    \* ---- the constructors of the breaker and the backoff policies
    cbArgs,      \* the options the breaker constructor was given: the fields they set
    cbRet,       \* how the constructor call ended: "none", "ok", "error", "panic"
    cbOptions,   \* the *options of the breaker the constructor made, Nil if there is none
    boArgs,      \* the options NewExponential was given: the fields they set
    boErr,       \* the error of the policy constructor: "none", "nil", "error"
    backoff,     \* the backoff policy: a Fixed or an Exponential, NoPolicy if there is none
    durations    \* what the calls of backoff.Duration() returned, in order

bvars == <<lookup, now, threshold, retry, pc, circuit, tryCounter, handler, started,
           emitted, ret, fires, manual, opens, consec, clean>>

lvars == <<retryCount, down, keys, lpc, i, pending, success, lockErr, runs, expired>>

xvars == <<dynamic, result, box, live, stale, failCommits>>

evars == <<mutex, epc, todo, sec, sections, blocked, sent, called, commits, chansClosed,
           worker, destroys, destroyRet>>

rvars == <<rlOptions, retryDelayMs, driftFactor, ttlMs, validityTime>>

kvars == <<cbArgs, cbRet, cbOptions, boArgs, boErr, backoff, durations>>

ovars == <<evars, rvars, kvars>>

vars == <<bvars, lvars, xvars, ovars>>

\* a slip in getOrSetState: the new record starts with a failure counted
NoCircuitOneFailure == [State |-> Closed, Failures |-> 1, OpenedAt |-> ZeroTime]

\* getOrSetState's new record: &schema.Circuit{State: schema.Closed, Failures: 0}
NoCircuit == [State |-> Closed, Failures |-> 0, OpenedAt |-> ZeroTime]

\* a Fire's circuit variable while no Fire runs
NoState == [State |-> Closed]

\* cache.Get(ID) finds a record
Has(ID) == ID \in DOMAIN lookup

\* cache.Set(ID, c)
Set(ID, c) == [id \in DOMAIN lookup \cup {ID} |-> IF id = ID THEN c ELSE lookup[id]]

\* float64(time.Now().Sub(t).Nanoseconds()) * 1e-06: Sub saturates at the longest Duration
SinceMs(t) == IF t = ZeroTime THEN MaxDurationMs ELSE now - t

\* a message on circuitChan (kinds Closed, Open, HalfOpen) or fallbackChan (Fallback)
Ev(ID, kind) == [ID |-> ID, kind |-> kind]

\* the Open events among the events evs
OpensIn(evs) == Cardinality({k \in DOMAIN evs : evs[k].kind = "Open"})

\* a step sends the events evs and returns r to its caller
Out(evs, r) ==
    /\ emitted' = evs
    /\ ret' = r
    /\ opens' = opens + OpensIn(evs)

\* the breaker as constructed, for the options given
BreakerInit(t, r) ==
    /\ lookup = << >>
    /\ now = 1
    /\ threshold = t
    /\ retry = r
    /\ pc = [p \in Callers |-> "idle"]
    /\ circuit = [p \in Callers |-> NoState]
    /\ tryCounter = [p \in Callers |-> 0]
    /\ handler = [p \in Callers |-> "nil"]
    /\ started = [p \in Callers |-> 0]
    /\ emitted = << >>
    /\ ret = "none"
    /\ fires = 0
    /\ manual = 0
    /\ opens = 0
    /\ consec = 0
    /\ clean = TRUE

\* what NewRedLock assigns before it applies the options: retryDelayMs twice,
\* retryCount never (it keeps the zero value of new(RedLock))
redLockDefaults == [retryCount |-> 0, retryDelayMs |-> 3, driftFactor |-> 1, ttlMs |-> 500]

\* NewRedLock: the options given overwrite the fields they name
NewRedLock(options) == options @@ redLockDefaults

\* the option lists NewRedLock is called with: none, or RetryCount(rc)
RedLockOptions == {<< >>} \cup {[retryCount |-> rc] : rc \in RetryCounts}

\* the fields of the RedLock that NewRedLock(options...) returns
RedLockInit(options) ==
    /\ rlOptions = options
    /\ retryDelayMs = NewRedLock(options).retryDelayMs
    /\ driftFactor = NewRedLock(options).driftFactor
    /\ ttlMs = NewRedLock(options).ttlMs
    /\ validityTime = [q \in Procs |-> 0]

\* the Redlock runner as constructed, for the options and instances given
LockInit(rc, dn) ==
    /\ retryCount = rc
    /\ down = dn
    /\ keys = [c \in Clients |-> NoKey]
    /\ lpc = [q \in Procs |-> "idle"]
    /\ i = [q \in Procs |-> 0]
    /\ pending = [q \in Procs |-> {}]
    /\ success = [q \in Procs |-> 0]
    /\ lockErr = [q \in Procs |-> "none"]
    /\ runs = 0
    /\ expired = FALSE

\* no attempt has been launched; dyn says which breaker was constructed
AttemptInit(dyn) ==
    /\ dynamic = dyn
    /\ result = [p \in Callers |-> 0]
    /\ box = [p \in Callers |-> NoItem]
    /\ live = [p \in Callers |-> FALSE]
    /\ stale = [p \in Callers |-> 0]
    /\ failCommits = [p \in Callers |-> 0]

\* the event worker started, no caller in a critical section
EventInit ==
    /\ mutex = "none"
    /\ epc = [u \in Users |-> "out"]
    /\ todo = [u \in Users |-> << >>]
    /\ sec = [u \in Users |-> 0]
    /\ sections = 0
    /\ blocked = [u \in Users |-> FALSE]
    /\ sent = << >>
    /\ called = << >>
    /\ commits = << >>
    /\ chansClosed = FALSE
    /\ worker = "running"
    /\ destroys = 0
    /\ destroyRet = "none"

\* a nil pointer, and a pointer to x
Nil == << >>
Ref(x) == <<x>>

\* no backoff policy
NoPolicy == [type |-> "none", WaitDuration |-> 0, min |-> 0, max |-> 0, factor |-> 0,
             attempt |-> 0]

\* no constructor has been called
BuildInit ==
    /\ cbArgs = << >>
    /\ cbRet = "none"
    /\ cbOptions = Nil
    /\ boArgs = << >>
    /\ boErr = "none"
    /\ backoff = NoPolicy
    /\ durations = << >>

\* the parts no claim of the specification at hand is about
OtherInit == EventInit /\ BuildInit

Init ==
    /\ \E t \in Thresholds, r \in Retries : BreakerInit(t, r)
    /\ LockInit(1, {})
    /\ RedLockInit([retryCount |-> 1])
    /\ AttemptInit(FALSE)
    /\ OtherInit

\* time passes; the code reads the clock only in tryReset's test of an Open
\* record's opened_at, so the time that passes while no record is Open, or after
\* that test has turned true, is left out
Tick ==
    /\ now < MaxTime
    /\ \E ID \in IDs :
          Has(ID) /\ lookup[ID].State = Open /\ SinceMs(lookup[ID].OpenedAt) <= GracePeriodMs
    /\ now' = now + 1
    /\ Out(<< >>, "none")
    /\ UNCHANGED <<lookup, threshold, retry, pc, circuit, tryCounter, handler, started,
                   fires, manual, consec, clean>>
    /\ UNCHANGED <<lvars, xvars, ovars>>

\* Fire, its first step: getOrSetState in a critical section
GetOrSetState(p, ID) ==
    /\ pc[p] = "idle"
    /\ fires < MaxFires
    /\ fires' = fires + 1
    /\ lookup' = IF Has(ID) THEN lookup ELSE Set(ID, NoCircuit)
    /\ circuit' = [circuit EXCEPT ![p] = [State |-> lookup'[ID].State]]
    /\ pc' = [pc EXCEPT ![p] = "l693"]
    /\ Out(<< >>, "none")
    /\ UNCHANGED <<now, threshold, retry, tryCounter, handler, started, manual, consec,
                   clean>>
    /\ UNCHANGED <<lvars, xvars, ovars>>

\* What a read of circuit.State outside the critical section can give: the value
\* getOrSetState saw (ReditCache.Get returns a copy; a stale read), or the stored
\* one (MemoryCache.Get returns the stored pointer, read without the mutex).
StateRead(p, ID) == {circuit[p].State} \cup {lookup[id].State : id \in DOMAIN lookup \cap {ID}}

\* a slip in Fire: the test of Isolate is lost
AfterIsolateTestLost(s) == "l697"

\* where Fire goes after the test of circuit.State == schema.Isolate
AfterIsolateTest(s) == IF s = Isolate THEN "handleOpen" ELSE "l697"

\* Fire, line 693
TestIsolate(p, ID) ==
    /\ pc[p] = "l693"
    /\ \E s \in StateRead(p, ID) :
          /\ circuit' = [circuit EXCEPT ![p].State = s]
          /\ pc' = [pc EXCEPT ![p] = AfterIsolateTest(s)]
    /\ Out(<< >>, "none")
    /\ UNCHANGED <<lookup, now, threshold, retry, tryCounter, handler, started, fires,
                   manual, consec, clean>>
    /\ UNCHANGED <<lvars, xvars, ovars>>

\* a slip in trigger: the loop runs once more
LoopHeadOnceMore(n) == IF n <= retry THEN "start" ELSE "HANDLE"

\* the first position of trigger: the loop runs while tryCounter < retry
LoopHead(n) == IF n < retry THEN "start" ELSE "HANDLE"

\* Fire, line 697
TestOpen(p, ID) ==
    /\ pc[p] = "l697"
    /\ \E s \in StateRead(p, ID) :
          /\ circuit' = [circuit EXCEPT ![p].State = s]
          /\ pc' = [pc EXCEPT ![p] = IF s = Open THEN "tryReset" ELSE LoopHead(0)]
    /\ Out(<< >>, "none")
    /\ UNCHANGED <<lookup, now, threshold, retry, tryCounter, handler, started, fires,
                   manual, consec, clean>>
    /\ UNCHANGED <<lvars, xvars, ovars>>

\* a slip in tryReset: the grace period is not tested
moveToHalfOpenAtOnce(c) == c.State = Open

\* a slip in tryReset: the record is never moved
moveToHalfOpenNever(c) == FALSE

\* tryReset's moveToHalfOpen
moveToHalfOpen(c) == c.State = Open /\ SinceMs(c.OpenedAt) > GracePeriodMs

\* what tryReset returns: has = a record was found, moved = it was moved to HalfOpen
tryResetResult(has, moved) == IF has THEN FALSE ELSE TRUE

\* Fire, lines 698-705: tryReset in a critical section
TryReset(p, ID) ==
    /\ pc[p] = "tryReset"
    /\ IF Has(ID) /\ moveToHalfOpen(lookup[ID])
         THEN /\ lookup' = Set(ID, [lookup[ID] EXCEPT !.State = HalfOpen])
              /\ Out(<<Ev(ID, "HalfOpen")>>, "none")
              /\ clean' = FALSE
         ELSE /\ Out(<< >>, "none")
              /\ UNCHANGED <<lookup, clean>>
    /\ pc' = [pc EXCEPT ![p] = IF tryResetResult(Has(ID), Has(ID) /\ moveToHalfOpen(lookup[ID]))
                                  THEN LoopHead(0) ELSE "handleOpen"]
    /\ UNCHANGED <<now, threshold, retry, circuit, tryCounter, handler, started, fires,
                   manual, consec>>
    /\ UNCHANGED <<lvars, xvars, ovars>>

\* Fire returns: its locals are gone
Return(p) ==
    /\ pc' = [pc EXCEPT ![p] = "idle"]
    /\ circuit' = [circuit EXCEPT ![p] = NoState]
    /\ tryCounter' = [tryCounter EXCEPT ![p] = 0]
    /\ handler' = [handler EXCEPT ![p] = "nil"]
    /\ started' = [started EXCEPT ![p] = 0]

\* Fire's handleOpen closure: the short circuit
HandleOpen(p, ID) ==
    /\ pc[p] = "handleOpen"
    /\ Out(<<Ev(ID, "Fallback")>>, "circuitOpen")
    /\ Return(p)
    /\ UNCHANGED <<lookup, now, threshold, retry, fires, manual, consec, clean>>
    /\ UNCHANGED <<lvars, xvars, ovars>>

\* trigger, case <-start: launch the wrapped operation and arm the timeout
Start(p) ==
    /\ pc[p] = "start"
    /\ started' = [started EXCEPT ![p] = @ + 1]
    /\ pc' = [pc EXCEPT ![p] = "select"]
    /\ Out(<< >>, "none")
    /\ UNCHANGED <<lookup, now, threshold, retry, circuit, tryCounter, handler, fires,
                   manual, consec, clean>>
    /\ UNCHANGED <<lvars, xvars, ovars>>

\* trigger, case <-timeout
Timeout(p) ==
    /\ pc[p] = "select"
    /\ tryCounter' = [tryCounter EXCEPT ![p] = @ + 1]
    /\ handler' = [handler EXCEPT ![p] = "failTimeout"]
    /\ pc' = [pc EXCEPT ![p] = LoopHead(tryCounter[p] + 1)]
    /\ Out(<< >>, "none")
    /\ UNCHANGED <<lookup, now, threshold, retry, circuit, started, fires, manual,
                   consec, clean>>
    /\ UNCHANGED <<lvars, xvars, ovars>>

\* the handler trigger picks for a value received from the result channel
HandlerFor(out) == IF out = "errFail" THEN "failErr" ELSE "success"

\* trigger, case value := <-result
Result(p) ==
    /\ pc[p] = "select"
    /\ \E out \in Outcomes : handler' = [handler EXCEPT ![p] = HandlerFor(out)]
    /\ pc' = [pc EXCEPT ![p] = "HANDLE"]
    /\ Out(<< >>, "none")
    /\ UNCHANGED <<lookup, now, threshold, retry, circuit, tryCounter, started, fires,
                   manual, consec, clean>>
    /\ UNCHANGED <<lvars, xvars, ovars>>

\* a slip in handleFail's test: the circuit trips one failure early
TripsEarly(failures) == failures >= threshold

\* a slip in handleFail's test: the circuit trips one failure late
TripsLate(failures) == failures > threshold + 1

\* handleFail's test after circuit.Failures++
Trips(failures) == failures > threshold

\* a slip in handleFail: a record that trips keeps its opened_at
handleFailCircuitKeepsOpenedAt(c) ==
    IF Trips(c.Failures + 1)
      THEN [State |-> Open, Failures |-> c.Failures + 1, OpenedAt |-> c.OpenedAt]
      ELSE [c EXCEPT !.Failures = c.Failures + 1]

\* the record handleFail stores for a record c that is not Open
handleFailCircuit(c) ==
    IF Trips(c.Failures + 1)
      THEN [State |-> Open, Failures |-> c.Failures + 1, OpenedAt |-> now]
      ELSE [c EXCEPT !.Failures = c.Failures + 1]

\* a slip in handleFail: no Fallback is sent with the Open event
handleFailEventsOpenOnly(ID, c) ==
    IF Trips(c.Failures + 1) THEN <<Ev(ID, "Open")>> ELSE <<Ev(ID, "Fallback")>>

\* the events handleFail sends for a record c that is not Open
handleFailEvents(ID, c) ==
    (IF Trips(c.Failures + 1) THEN <<Ev(ID, "Open")>> ELSE << >>) \o <<Ev(ID, "Fallback")>>

\* the error a handleFail handler carries
FailError(h) == IF h = "failErr" THEN "opErr" ELSE "timeoutErr"

\* trigger's HANDLE with a handleFail handler, in a critical section
HandleFail(p, ID) ==
    /\ pc[p] = "HANDLE"
    /\ handler[p] \in {"failErr", "failTimeout"}
    /\ IF Has(ID) /\ lookup[ID].State # Open
         THEN /\ lookup' = Set(ID, handleFailCircuit(lookup[ID]))
              /\ Out(handleFailEvents(ID, lookup[ID]), FailError(handler[p]))
         ELSE /\ Out(<< >>, FailError(handler[p]))
              /\ UNCHANGED lookup
    /\ consec' = consec + 1
    /\ Return(p)
    /\ UNCHANGED <<now, threshold, retry, fires, manual, clean>>
    /\ UNCHANGED <<lvars, xvars, ovars>>

\* a slip in handleSuccess: the failure count is kept
handleSuccessKeepsFailures(c) == [c EXCEPT !.State = Closed]

\* the record handleSuccess stores for a record c that is not Closed
handleSuccessCircuit(c) == [c EXCEPT !.State = Closed, !.Failures = 0]

\* trigger's HANDLE with a handleSuccess handler, in a critical section
HandleSuccess(p, ID) ==
    /\ pc[p] = "HANDLE"
    /\ handler[p] = "success"
    /\ IF Has(ID) /\ lookup[ID].State # Closed
         THEN /\ lookup' = Set(ID, handleSuccessCircuit(lookup[ID]))
              /\ Out(<<Ev(ID, "Closed")>>, "value")
         ELSE /\ Out(<< >>, "value")
              /\ UNCHANGED lookup
    /\ consec' = 0
    /\ clean' = FALSE
    /\ Return(p)
    /\ UNCHANGED <<now, threshold, retry, fires, manual>>
    /\ UNCHANGED <<lvars, xvars, ovars>>

\* trigger's HANDLE when the loop never ran: handler is the nil func, the call faults
HandleNil(p) ==
    /\ pc[p] = "HANDLE"
    /\ handler[p] = "nil"
    /\ Out(<< >>, "panic")
    /\ Return(p)
    /\ UNCHANGED <<lookup, now, threshold, retry, fires, manual, consec, clean>>
    /\ UNCHANGED <<lvars, xvars, ovars>>

\* the record Isolate's closure leaves
IsolateCircuit(c) == [c EXCEPT !.State = Isolate]

\* a slip in Reset: opened_at is kept
ResetKeepsOpenedAt(c) == [c EXCEPT !.State = Closed, !.Failures = 0]

\* the record Reset's closure leaves
ResetCircuit(c) == [c EXCEPT !.State = Closed, !.OpenedAt = ZeroTime, !.Failures = 0]

\* Isolate(ID): safelyUpdateCircuit; fn(circuit) dereferences a nil circuit when
\* no record is stored
IsolateID(ID) ==
    /\ manual < MaxManual
    /\ manual' = manual + 1
    /\ IF Has(ID)
         THEN /\ lookup' = Set(ID, IsolateCircuit(lookup[ID]))
              /\ Out(<<Ev(ID, "Open"), Ev(ID, "Fallback")>>, "true")
              /\ clean' = FALSE
         ELSE /\ Out(<< >>, "panic")
              /\ UNCHANGED <<lookup, clean>>
    /\ UNCHANGED <<now, threshold, retry, pc, circuit, tryCounter, handler, started, fires,
                   consec>>
    /\ UNCHANGED <<lvars, xvars, ovars>>

\* Reset(ID): safelyUpdateCircuit, as Isolate
ResetID(ID) ==
    /\ manual < MaxManual
    /\ manual' = manual + 1
    /\ IF Has(ID)
         THEN /\ lookup' = Set(ID, ResetCircuit(lookup[ID]))
              /\ Out(<<Ev(ID, "Closed")>>, "true")
              /\ clean' = FALSE
         ELSE /\ Out(<< >>, "panic")
              /\ UNCHANGED <<lookup, clean>>
    /\ UNCHANGED <<now, threshold, retry, pc, circuit, tryCounter, handler, started, fires,
                   consec>>
    /\ UNCHANGED <<lvars, xvars, ovars>>

Next ==
    \/ Tick
    \/ \E p \in Callers, ID \in IDs :
          \/ GetOrSetState(p, ID)
          \/ TestIsolate(p, ID)
          \/ TestOpen(p, ID)
          \/ TryReset(p, ID)
          \/ HandleOpen(p, ID)
          \/ HandleFail(p, ID)
          \/ HandleSuccess(p, ID)
    \/ \E p \in Callers :
          \/ Start(p)
          \/ Timeout(p)
          \/ Result(p)
          \/ HandleNil(p)
    \/ \E ID \in IDs :
          \/ IsolateID(ID)
          \/ ResetID(ID)

Spec == Init /\ [][Next]_vars

\* ---- recovery: an Open record, an operation that succeeds, Fires that keep coming
\* The record is Open as handleFail left it when the circuit tripped.  Fires are
\* issued one after another once the grace period has elapsed, every attempt of
\* the wrapped operation returns a result that is no failure, nobody calls
\* Isolate or Reset.  The clock advances, a Fire is issued whenever none runs,
\* and a Fire in progress takes its next step.

\* the breaker at the time at, when handleFail has just tripped the circuit
RecoverInit ==
    \E t \in Thresholds, r \in Retries \ {0} :
      \E at \in 1..(MaxTime - GracePeriodMs - 1) :
        /\ lookup = [ID \in IDs |-> [State |-> Open, Failures |-> t + 1, OpenedAt |-> at]]
        /\ now = at
        /\ threshold = t
        /\ retry = r
        /\ pc = [p \in Callers |-> "idle"]
        /\ circuit = [p \in Callers |-> NoState]
        /\ tryCounter = [p \in Callers |-> 0]
        /\ handler = [p \in Callers |-> "nil"]
        /\ started = [p \in Callers |-> 0]
        /\ emitted = << >>
        /\ ret = "none"
        /\ fires = 0
        /\ manual = 0
        /\ opens = 1
        /\ consec = t + 1
        /\ clean = TRUE

\* the grace period of every Open record has elapsed
GraceElapsed ==
    \A ID \in DOMAIN lookup :
        lookup[ID].State = Open => SinceMs(lookup[ID].OpenedAt) > GracePeriodMs

\* the next Fire is issued: the one before has returned and the grace period is over
FireAfterGrace(p, ID) ==
    /\ \A q \in Callers : pc[q] = "idle"
    /\ GraceElapsed
    /\ GetOrSetState(p, ID)

\* trigger, case value := <-result, for a result that is no failure
Succeeds(p) == Result(p) /\ handler'[p] = "success"

RecoverNext ==
    \/ Tick
    \/ \E p \in Callers, ID \in IDs :
          \/ FireAfterGrace(p, ID)
          \/ TestIsolate(p, ID)
          \/ TestOpen(p, ID)
          \/ TryReset(p, ID)
          \/ HandleOpen(p, ID)
          \/ HandleSuccess(p, ID)
    \/ \E p \in Callers :
          \/ Start(p)
          \/ Succeeds(p)

RecoverSpecInit ==
    /\ RecoverInit
    /\ LockInit(1, {})
    /\ RedLockInit([retryCount |-> 1])
    /\ AttemptInit(FALSE)
    /\ OtherInit

RecoverSpec ==
    /\ RecoverSpecInit
    /\ [][RecoverNext]_vars
    /\ WF_vars(RecoverNext)

\* ------------------------------------------------------ the Redlock runner
\* RunCritical's lock name for a circuit ID
LockName(ID) == ID \o "-lock"

\* the value lockInstance and unlockInstance pass as ARGV[1]: the lock's name
Token(q, name) == name

\* lock's quorum
quorum == (Cardinality(Clients) \div 2) + 1

\* lock's loop test, for loop counter n: the next attempt, or lock returns its error
LockLoop(q, n) ==
    IF n < retryCount
      THEN /\ lpc' = [lpc EXCEPT ![q] = "lock"]
           /\ pending' = [pending EXCEPT ![q] = Clients]
           /\ success' = [success EXCEPT ![q] = 0]
           /\ UNCHANGED lockErr
      ELSE /\ lpc' = [lpc EXCEPT ![q] = "fn"]
           /\ lockErr' = [lockErr EXCEPT ![q] = "failed"]
           /\ UNCHANGED <<pending, success>>

\* RunCritical is called: lock starts
RunCritical(q) ==
    /\ lpc[q] = "idle"
    /\ runs < MaxRuns
    /\ runs' = runs + 1
    /\ i' = [i EXCEPT ![q] = 0]
    /\ LockLoop(q, 0)
    /\ UNCHANGED <<retryCount, down, keys, expired>>
    /\ UNCHANGED <<bvars, xvars, ovars>>

\* lockScript on one instance: set the key to ARGV[1] if it is absent
lockScript(key, q, token) == IF key = NoKey THEN [val |-> token, by |-> q] ELSE key

\* lock's lockInstance goroutine for client c, and the receive of its answer
LockInstance(q, c, ID) ==
    /\ lpc[q] = "lock"
    /\ c \in pending[q]
    /\ pending' = [pending EXCEPT ![q] = @ \ {c}]
    /\ IF c \notin down /\ keys[c] = NoKey
         THEN /\ keys' = [keys EXCEPT ![c] = lockScript(@, q, Token(q, LockName(ID)))]
              /\ success' = [success EXCEPT ![q] = @ + 1]
         ELSE UNCHANGED <<keys, success>>
    /\ UNCHANGED <<retryCount, down, lpc, i, lockErr, runs, expired>>
    /\ UNCHANGED <<bvars, xvars, ovars>>

\* the elapsed times of an attempt, in milliseconds: with the default ttlMs and
\* driftFactor, the longest that leaves validity and the shortest that leaves none
Costs == {492, 493}

\* lock's driftMs: int(float64(ttlMs)*rl.driftFactor) + 2
driftMs == ((ttlMs * driftFactor) \div 100) + 2

\* a slip in lock's test: a tie counts as a quorum
AcquiredOnTie(n, validity) == n >= quorum - 1 /\ validity > 0

\* lock's test of an attempt, for the success count and the validityTime
Acquired(n, validity) == n >= quorum /\ validity > 0

\* lock, lines 221-231: all answers are in; costTimeMs is the time they took
Decide(q, costTimeMs) ==
    /\ lpc[q] = "lock"
    /\ pending[q] = {}
    /\ validityTime' = [validityTime EXCEPT ![q] = ttlMs - costTimeMs - driftMs]
    /\ IF Acquired(success[q], ttlMs - costTimeMs - driftMs)
         THEN /\ lpc' = [lpc EXCEPT ![q] = "fn"]
              /\ lockErr' = [lockErr EXCEPT ![q] = "nil"]
              /\ UNCHANGED pending
         ELSE /\ lpc' = [lpc EXCEPT ![q] = "unlockRetry"]
              /\ pending' = [pending EXCEPT ![q] = Clients]
              /\ UNCHANGED lockErr
    /\ UNCHANGED <<retryCount, down, keys, i, success, runs, expired>>
    /\ UNCHANGED <<rlOptions, retryDelayMs, driftFactor, ttlMs>>
    /\ UNCHANGED <<bvars, xvars, evars, kvars>>

\* unlockScript on one instance: delete the key if its value is ARGV[1]
unlockScript(key, token) == IF key # NoKey /\ key.val = token THEN NoKey ELSE key

\* unlock's unlockInstance goroutine for client c
UnlockInstance(q, c, ID) ==
    /\ lpc[q] \in {"unlockRetry", "unlockDefer"}
    /\ c \in pending[q]
    /\ pending' = [pending EXCEPT ![q] = @ \ {c}]
    /\ keys' = IF c \in down THEN keys
               ELSE [keys EXCEPT ![c] = unlockScript(@, Token(q, LockName(ID)))]
    /\ UNCHANGED <<retryCount, down, lpc, i, success, lockErr, runs, expired>>
    /\ UNCHANGED <<bvars, xvars, ovars>>

\* lock, after the unlock of a failed attempt: sleep, i++, and the loop test
Retry(q) ==
    /\ lpc[q] = "unlockRetry"
    /\ pending[q] = {}
    /\ i' = [i EXCEPT ![q] = @ + 1]
    /\ LockLoop(q, i[q] + 1)
    /\ validityTime' = [validityTime EXCEPT ![q] = 0]
    /\ UNCHANGED <<retryCount, down, keys, runs, expired>>
    /\ UNCHANGED <<rlOptions, retryDelayMs, driftFactor, ttlMs>>
    /\ UNCHANGED <<bvars, xvars, evars, kvars>>

\* RunCritical: fn returns, the deferred unlock starts
FnReturns(q) ==
    /\ lpc[q] = "fn"
    /\ lpc' = [lpc EXCEPT ![q] = "unlockDefer"]
    /\ pending' = [pending EXCEPT ![q] = Clients]
    /\ UNCHANGED <<retryCount, down, keys, i, success, lockErr, runs, expired>>
    /\ UNCHANGED <<bvars, xvars, ovars>>

\* RunCritical returns once the deferred unlock is done
Unlocked(q) ==
    /\ lpc[q] = "unlockDefer"
    /\ pending[q] = {}
    /\ lpc' = [lpc EXCEPT ![q] = "idle"]
    /\ lockErr' = [lockErr EXCEPT ![q] = "none"]
    /\ i' = [i EXCEPT ![q] = 0]
    /\ success' = [success EXCEPT ![q] = 0]
    /\ validityTime' = [validityTime EXCEPT ![q] = 0]
    /\ UNCHANGED <<retryCount, down, keys, pending, runs, expired>>
    /\ UNCHANGED <<rlOptions, retryDelayMs, driftFactor, ttlMs>>
    /\ UNCHANGED <<bvars, xvars, evars, kvars>>

\* the PX expiry of a lock key on one instance
Expire(c) ==
    /\ keys[c] # NoKey
    /\ keys' = [keys EXCEPT ![c] = NoKey]
    /\ expired' = TRUE
    /\ UNCHANGED <<retryCount, down, lpc, i, pending, success, lockErr, runs>>
    /\ UNCHANGED <<bvars, xvars, ovars>>

LockNext ==
    \/ \E q \in Procs :
          \/ RunCritical(q)
          \/ Retry(q)
          \/ FnReturns(q)
          \/ Unlocked(q)
    \/ \E q \in Procs, costTimeMs \in Costs : Decide(q, costTimeMs)
    \/ \E q \in Procs, c \in Clients, ID \in IDs :
          \/ LockInstance(q, c, ID)
          \/ UnlockInstance(q, c, ID)
    \/ \E c \in Clients : Expire(c)

LockSpecInit ==
    /\ BreakerInit(1, 1)
    /\ AttemptInit(FALSE)
    /\ OtherInit
    /\ \E options \in RedLockOptions, dn \in Downs :
          /\ LockInit(NewRedLock(options).retryCount, dn)
          /\ RedLockInit(options)

LockSpec == LockSpecInit /\ [][LockNext]_vars

\* ------------------------------------------- the breaker over a failing store
\* The store is a ReditCache whose Get or Set can return an error.  Get returns a
\* copy of the record, so what a handler changes reaches the store only by a Set
\* that succeeds.

\* getOrSetState: Get fails, or the record is absent and Set fails; Fire returns
\* the error
GetOrSetStateFails(p, ID) ==
    /\ pc[p] = "idle"
    /\ fires < MaxFires
    /\ fires' = fires + 1
    /\ Out(<< >>, "storeErr")
    /\ UNCHANGED <<lookup, now, threshold, retry, pc, circuit, tryCounter, handler, started,
                   manual, consec, clean>>
    /\ UNCHANGED <<lvars, xvars, ovars>>

\* tryReset: Get fails; tryReset returns true, err and Fire returns the error
TryResetGetFails(p, ID) ==
    /\ pc[p] = "tryReset"
    /\ Out(<< >>, "storeErr")
    /\ Return(p)
    /\ UNCHANGED <<lookup, now, threshold, retry, fires, manual, consec, clean>>
    /\ UNCHANGED <<lvars, xvars, ovars>>

\* tryReset: the Set of the HalfOpen record fails; its error is dropped, the
\* HalfOpen event is sent and tryReset returns false, nil
TryResetSetFails(p, ID) ==
    /\ pc[p] = "tryReset"
    /\ Has(ID) /\ moveToHalfOpen(lookup[ID])
    /\ Out(<<Ev(ID, "HalfOpen")>>, "none")
    /\ pc' = [pc EXCEPT ![p] = IF tryResetResult(TRUE, TRUE) THEN LoopHead(0) ELSE "handleOpen"]
    /\ UNCHANGED <<lookup, now, threshold, retry, circuit, tryCounter, handler, started,
                   fires, manual, consec, clean>>
    /\ UNCHANGED <<lvars, xvars, ovars>>

\* handleFail or handleSuccess: Get fails; the handler returns nil, cacheErr
HandleGetFails(p, ID) ==
    /\ pc[p] = "HANDLE"
    /\ handler[p] # "nil"
    /\ Out(<< >>, "storeErr")
    /\ Return(p)
    /\ UNCHANGED <<lookup, now, threshold, retry, fires, manual, consec, clean>>
    /\ UNCHANGED <<lvars, xvars, ovars>>

\* handleFail: the events are sent, then Set fails; its error is dropped and the
\* handler returns nil, err
HandleFailSetFails(p, ID) ==
    /\ pc[p] = "HANDLE"
    /\ handler[p] \in {"failErr", "failTimeout"}
    /\ Has(ID) /\ lookup[ID].State # Open
    /\ Out(handleFailEvents(ID, lookup[ID]), FailError(handler[p]))
    /\ Return(p)
    /\ UNCHANGED <<lookup, now, threshold, retry, fires, manual, consec, clean>>
    /\ UNCHANGED <<lvars, xvars, ovars>>

\* handleSuccess: Set fails; its error is dropped, the Closed event is sent and
\* the handler returns value, nil
HandleSuccessSetFails(p, ID) ==
    /\ pc[p] = "HANDLE"
    /\ handler[p] = "success"
    /\ Has(ID) /\ lookup[ID].State # Closed
    /\ Out(<<Ev(ID, "Closed")>>, "value")
    /\ Return(p)
    /\ UNCHANGED <<lookup, now, threshold, retry, fires, manual, consec, clean>>
    /\ UNCHANGED <<lvars, xvars, ovars>>

\* a step of a Fire in which a store operation fails
StoreFails(p, ID) ==
    \/ GetOrSetStateFails(p, ID)
    \/ TryResetGetFails(p, ID)
    \/ TryResetSetFails(p, ID)
    \/ HandleGetFails(p, ID)
    \/ HandleFailSetFails(p, ID)
    \/ HandleSuccessSetFails(p, ID)

StoreNext ==
    \/ Next
    \/ \E p \in Callers, ID \in IDs :
          \/ GetOrSetStateFails(p, ID)
          \/ TryResetGetFails(p, ID)
          \/ TryResetSetFails(p, ID)
          \/ HandleGetFails(p, ID)
          \/ HandleFailSetFails(p, ID)
          \/ HandleSuccessSetFails(p, ID)

StoreSpec == Init /\ [][StoreNext]_vars

\* ------------------------------------------------- the attempts of trigger
\* trigger in full: each attempt is a goroutine that runs the wrapped function
\* and then sends on the channel the variable result refers to at that moment
\* (the closure captures the variable, which trigger sets to nil at a timeout
\* and to a new channel at the next start).

\* the callers of Fire here, and the retry options
Attempters == {"c1"}
AttemptRetries == {1, 2}

\* what fn returns for what the wrapped function returned: the static breaker's fn
\* is the wrapped function, the dynamic breaker's fn is Fire's closure around it,
\* whose own error failCondition may hold of or not
fnResults(dyn, res, err) ==
    IF ~dyn THEN {[res |-> res, err |-> err]}
    ELSE IF res # "nil" THEN {[res |-> res, err |-> "nil"]}
    ELSE IF err # "nil" THEN {[res |-> "nil", err |-> err]}
    ELSE {[res |-> "nil", err |-> e] : e \in {"errFail", "errPass"}}

\* the fnResult a goroutine sends: v is what fn returned, res and err what the
\* wrapped function returned, late whether the attempt has timed out
Item(v, res, err, late) ==
    [res |-> v.res, err |-> v.err, rawRes |-> res, rawErr |-> err, late |-> late]

\* trigger's test of a received value: value.err != nil && failCondition(value.err)
OutcomeOf(v) == IF v.err = "nil" THEN "ok" ELSE v.err

\* trigger, case <-timeout: result = nil
ResultAfterTimeout(r) == 0

\* trigger, case <-start
StartAttempt(p) ==
    /\ pc[p] = "start"
    /\ started' = [started EXCEPT ![p] = @ + 1]
    /\ pc' = [pc EXCEPT ![p] = "select"]
    /\ result' = [result EXCEPT ![p] = started[p] + 1]
    /\ box' = [box EXCEPT ![p] = NoItem]
    /\ live' = [live EXCEPT ![p] = TRUE]
    /\ IF tryCounter[p] = 0
         THEN /\ stale' = [stale EXCEPT ![p] = 0]
              /\ failCommits' = [failCommits EXCEPT ![p] = 0]
         ELSE UNCHANGED <<stale, failCommits>>
    /\ Out(<< >>, "none")
    /\ UNCHANGED <<lookup, now, threshold, retry, circuit, tryCounter, handler, fires,
                   manual, consec, clean, dynamic>>
    /\ UNCHANGED <<lvars, ovars>>

\* trigger, case <-timeout; the attempt's goroutine runs on
TimeoutAttempt(p) ==
    /\ pc[p] = "select"
    /\ tryCounter' = [tryCounter EXCEPT ![p] = @ + 1]
    /\ handler' = [handler EXCEPT ![p] = "failTimeout"]
    /\ pc' = [pc EXCEPT ![p] = LoopHead(tryCounter[p] + 1)]
    /\ result' = [result EXCEPT ![p] = ResultAfterTimeout(@)]
    /\ box' = [box EXCEPT ![p] = IF ResultAfterTimeout(result[p]) = 0 THEN NoItem ELSE @]
    /\ stale' = [stale EXCEPT ![p] = IF live[p] THEN @ + 1 ELSE @]
    /\ live' = [live EXCEPT ![p] = FALSE]
    /\ Out(<< >>, "none")
    /\ UNCHANGED <<lookup, now, threshold, retry, circuit, started, fires, manual,
                   consec, clean, dynamic, failCommits>>
    /\ UNCHANGED <<lvars, ovars>>

\* the send result <- fnResult{res, err} of a goroutine can proceed and be read
CanSend(p) == pc[p] = "select" /\ result[p] # 0 /\ box[p] = NoItem

\* the goroutine of the current attempt: fn returns and its result is sent
OperationReturns(p) ==
    /\ live[p]
    /\ pc[p] # "dead"
    /\ live' = [live EXCEPT ![p] = FALSE]
    /\ \E res \in Values, err \in Errors :
         \E v \in fnResults(dynamic, res, err) :
            box' = [box EXCEPT ![p] = IF CanSend(p) THEN Item(v, res, err, FALSE) ELSE @]
    /\ Out(<< >>, "none")
    /\ UNCHANGED <<lookup, now, threshold, retry, pc, circuit, tryCounter, handler, started,
                   fires, manual, consec, clean, dynamic, result, stale, failCommits>>
    /\ UNCHANGED <<lvars, ovars>>

\* the goroutine of a timed-out attempt: fn returns while a later attempt's
\* channel is in result, and its result is sent there
StaleReturns(p) ==
    /\ stale[p] > 0
    /\ CanSend(p)
    /\ stale' = [stale EXCEPT ![p] = @ - 1]
    /\ \E res \in Values, err \in Errors :
         \E v \in fnResults(dynamic, res, err) :
            box' = [box EXCEPT ![p] = Item(v, res, err, TRUE)]
    /\ Out(<< >>, "none")
    /\ UNCHANGED <<lookup, now, threshold, retry, pc, circuit, tryCounter, handler, started,
                   fires, manual, consec, clean, dynamic, result, live, failCommits>>
    /\ UNCHANGED <<lvars, ovars>>

\* trigger, case value := <-result
Receive(p) ==
    /\ pc[p] = "select"
    /\ box[p] # NoItem
    /\ handler' = [handler EXCEPT ![p] = HandlerFor(OutcomeOf(box[p]))]
    /\ pc' = [pc EXCEPT ![p] = "HANDLE"]
    /\ box' = [box EXCEPT ![p] = NoItem]
    /\ Out(<< >>, "none")
    /\ UNCHANGED <<lookup, now, threshold, retry, circuit, tryCounter, started, fires,
                   manual, consec, clean, dynamic, result, live, stale, failCommits>>
    /\ UNCHANGED <<lvars, ovars>>

\* trigger's HANDLE with a handleFail handler; the goroutines of the Fire's
\* attempts outlive it
CommitFail(p, ID) ==
    /\ pc[p] = "HANDLE"
    /\ handler[p] \in {"failErr", "failTimeout"}
    /\ IF Has(ID) /\ lookup[ID].State # Open
         THEN /\ lookup' = Set(ID, handleFailCircuit(lookup[ID]))
              /\ Out(handleFailEvents(ID, lookup[ID]), FailError(handler[p]))
         ELSE /\ Out(<< >>, FailError(handler[p]))
              /\ UNCHANGED lookup
    /\ consec' = consec + 1
    /\ failCommits' = [failCommits EXCEPT ![p] = @ + 1]
    /\ Return(p)
    /\ result' = [result EXCEPT ![p] = 0]
    /\ box' = [box EXCEPT ![p] = NoItem]
    /\ UNCHANGED <<now, threshold, retry, fires, manual, clean, dynamic, live, stale>>
    /\ UNCHANGED <<lvars, ovars>>

\* trigger's HANDLE with a handleSuccess handler
CommitSuccess(p, ID) ==
    /\ pc[p] = "HANDLE"
    /\ handler[p] = "success"
    /\ IF Has(ID) /\ lookup[ID].State # Closed
         THEN /\ lookup' = Set(ID, handleSuccessCircuit(lookup[ID]))
              /\ Out(<<Ev(ID, "Closed")>>, "value")
         ELSE /\ Out(<< >>, "value")
              /\ UNCHANGED lookup
    /\ consec' = 0
    /\ clean' = FALSE
    /\ Return(p)
    /\ result' = [result EXCEPT ![p] = 0]
    /\ box' = [box EXCEPT ![p] = NoItem]
    /\ UNCHANGED <<now, threshold, retry, fires, manual, dynamic, live, stale, failCommits>>
    /\ UNCHANGED <<lvars, ovars>>

\* the wrapped function panics in a goroutine of the caller's latest Fire: the
\* deferred func runs handleFail("A panic occurred") and panics again, which
\* ends the process
Panics(p, ID) ==
    /\ live[p] \/ stale[p] > 0
    /\ pc[p] # "dead"
    /\ IF Has(ID) /\ lookup[ID].State # Open
         THEN /\ lookup' = Set(ID, handleFailCircuit(lookup[ID]))
              /\ Out(handleFailEvents(ID, lookup[ID]), "panic")
         ELSE /\ Out(<< >>, "panic")
              /\ UNCHANGED lookup
    /\ consec' = consec + 1
    /\ failCommits' = [failCommits EXCEPT ![p] = @ + 1]
    /\ pc' = [q \in Callers |-> "dead"]
    /\ UNCHANGED <<now, threshold, retry, circuit, tryCounter, handler, started, fires,
                   manual, clean, dynamic, result, box, live, stale>>
    /\ UNCHANGED <<lvars, ovars>>

AttemptNext ==
    \/ Tick
    \/ \E p \in Attempters, ID \in IDs :
          \/ GetOrSetState(p, ID)
          \/ TestIsolate(p, ID)
          \/ TestOpen(p, ID)
          \/ TryReset(p, ID)
          \/ HandleOpen(p, ID)
          \/ CommitFail(p, ID)
          \/ CommitSuccess(p, ID)
          \/ Panics(p, ID)
    \/ \E p \in Attempters :
          \/ StartAttempt(p)
          \/ TimeoutAttempt(p)
          \/ OperationReturns(p)
          \/ StaleReturns(p)
          \/ Receive(p)

AttemptSpecInit ==
    /\ \E t \in Thresholds, r \in AttemptRetries : BreakerInit(t, r)
    /\ LockInit(1, {})
    /\ RedLockInit([retryCount |-> 1])
    /\ \E dyn \in BOOLEAN : AttemptInit(dyn)
    /\ OtherInit

AttemptSpec == AttemptSpecInit /\ [][AttemptNext]_vars

\* ---- the Fires of one caller under the scheduler
\* The wrapped function returns or runs on for ever and does not panic.  A
\* goroutine that can run is run and a timer that is armed fires, so a step of
\* the caller's Fire that stays possible is taken; nothing makes the wrapped
\* function return.
FireStep(p) ==
    \/ \E ID \in IDs :
          \/ TestIsolate(p, ID)
          \/ TestOpen(p, ID)
          \/ TryReset(p, ID)
          \/ HandleOpen(p, ID)
          \/ CommitFail(p, ID)
          \/ CommitSuccess(p, ID)
    \/ StartAttempt(p)
    \/ TimeoutAttempt(p)
    \/ Receive(p)

LiveNext ==
    \/ Tick
    \/ \E p \in Attempters, ID \in IDs :
          \/ GetOrSetState(p, ID)
          \/ TestIsolate(p, ID)
          \/ TestOpen(p, ID)
          \/ TryReset(p, ID)
          \/ HandleOpen(p, ID)
          \/ CommitFail(p, ID)
          \/ CommitSuccess(p, ID)
    \/ \E p \in Attempters :
          \/ StartAttempt(p)
          \/ TimeoutAttempt(p)
          \/ OperationReturns(p)
          \/ StaleReturns(p)
          \/ Receive(p)

LiveSpec ==
    /\ AttemptSpecInit
    /\ [][LiveNext]_vars
    /\ \A p \in Attempters : WF_vars(FireStep(p))

\* ------------------------------------- the event worker and the mutex
\* Fire, Isolate and Reset with RunCritical spelt out (MemoryCache.RunCritical:
\* mutex.Lock, the closure, the deferred mutex.Unlock), every send on the
\* unbuffered circuitChan and fallbackChan as a rendezvous with handleEvents,
\* and Destroy.

MaxSections == 3   \* critical sections entered in a behaviour
MaxDestroys == 2   \* Destroy calls made in a behaviour

\* the steps of a critical section that the other goroutines can see
SendStep(ID, kind) == [op |-> "send", ev |-> Ev(ID, kind), ID |-> ID, c |-> NoCircuit]
SetStep(ID, c) == [op |-> "set", ev |-> Ev(ID, ""), ID |-> ID, c |-> c]
FaultStep(ID) == [op |-> "panic", ev |-> Ev(ID, ""), ID |-> ID, c |-> NoCircuit]

\* the sends of the events evs, in order
Sends(evs) == [k \in DOMAIN evs |-> SendStep(evs[k].ID, evs[k].kind)]

\* getOrSetState's closure: a missing record is stored
getOrSetStateBody(ID) == IF Has(ID) THEN << >> ELSE <<SetStep(ID, NoCircuit)>>

\* tryReset's closure: cache.Set, then the HalfOpen event
tryResetBody(ID) ==
    IF Has(ID) /\ moveToHalfOpen(lookup[ID])
      THEN <<SetStep(ID, [lookup[ID] EXCEPT !.State = HalfOpen]), SendStep(ID, "HalfOpen")>>
      ELSE << >>

\* handleFail's closure: the events, then cache.Set
handleFailBody(ID) ==
    IF Has(ID) /\ lookup[ID].State # Open
      THEN Sends(handleFailEvents(ID, lookup[ID]))
           \o <<SetStep(ID, handleFailCircuit(lookup[ID]))>>
      ELSE << >>

\* handleSuccess's closure: cache.Set, then the Closed event
handleSuccessBody(ID) ==
    IF Has(ID) /\ lookup[ID].State # Closed
      THEN <<SetStep(ID, handleSuccessCircuit(lookup[ID])), SendStep(ID, "Closed")>>
      ELSE << >>

\* safelyUpdateCircuit with Isolate's closure: the events, then cache.Set
IsolateBody(ID) ==
    IF Has(ID)
      THEN <<SendStep(ID, "Open"), SendStep(ID, "Fallback"),
             SetStep(ID, IsolateCircuit(lookup[ID]))>>
      ELSE <<FaultStep(ID)>>

\* safelyUpdateCircuit with Reset's closure: the event, then cache.Set
ResetBody(ID) ==
    IF Has(ID)
      THEN <<SendStep(ID, "Closed"), SetStep(ID, ResetCircuit(lookup[ID]))>>
      ELSE <<FaultStep(ID)>>

\* the closure RunCritical is given by the call kind
Body(kind, ID) ==
    CASE kind = "getOrSetState" -> getOrSetStateBody(ID)
      [] kind = "tryReset" -> tryResetBody(ID)
      [] kind = "handleFail" -> handleFailBody(ID)
      [] kind = "handleSuccess" -> handleSuccessBody(ID)
      [] kind = "Isolate" -> IsolateBody(ID)
      [] kind = "Reset" -> ResetBody(ID)

\* the critical section u is about to ask for
Wants(u, kind) ==
    CASE kind = "getOrSetState" -> u \in Callers /\ pc[u] = "idle" /\ fires < MaxFires
      [] kind = "tryReset" -> u \in Callers /\ pc[u] = "tryReset"
      [] kind = "handleFail" ->
            u \in Callers /\ pc[u] = "HANDLE" /\ handler[u] \in {"failErr", "failTimeout"}
      [] kind = "handleSuccess" -> u \in Callers /\ pc[u] = "HANDLE" /\ handler[u] = "success"
      [] kind = "Isolate" -> u \in Admins /\ manual < MaxManual
      [] kind = "Reset" -> u \in Admins /\ manual < MaxManual

Kinds == {"getOrSetState", "tryReset", "handleFail", "handleSuccess", "Isolate", "Reset"}

\* a slip in RunCritical: the mutex is not taken
MutexFreeAlways == TRUE

\* mutex.Lock() can return
MutexFree == mutex = "none"

\* RunCritical: mutex.Lock() returns and the closure starts with cache.Get
MutexLock(u, ID, kind) ==
    /\ epc[u] = "out"
    /\ Wants(u, kind)
    /\ MutexFree
    /\ sections < MaxSections
    /\ mutex' = u
    /\ epc' = [epc EXCEPT ![u] = kind]
    /\ todo' = [todo EXCEPT ![u] = Body(kind, ID)]
    /\ sections' = sections + 1
    /\ sec' = [sec EXCEPT ![u] = sections + 1]
    /\ fires' = IF kind = "getOrSetState" THEN fires + 1 ELSE fires
    /\ manual' = IF kind \in {"Isolate", "Reset"} THEN manual + 1 ELSE manual
    /\ circuit' = IF kind = "getOrSetState"
                    THEN [circuit EXCEPT ![u] =
                            [State |-> IF Has(ID) THEN lookup[ID].State ELSE Closed]]
                    ELSE circuit
    /\ UNCHANGED <<lookup, now, threshold, retry, pc, tryCounter, handler, started, emitted,
                   ret, opens, consec, clean>>
    /\ UNCHANGED <<blocked, sent, called, commits, chansClosed, worker, destroys, destroyRet>>
    /\ UNCHANGED <<lvars, xvars, rvars, kvars>>

\* cache.Set in a critical section
CacheSet(u) ==
    /\ epc[u] \in Kinds
    /\ todo[u] # << >>
    /\ Head(todo[u]).op = "set"
    /\ lookup' = Set(Head(todo[u]).ID, Head(todo[u]).c)
    /\ commits' = Append(commits, sec[u])
    /\ todo' = [todo EXCEPT ![u] = Tail(@)]
    /\ UNCHANGED <<now, threshold, retry, pc, circuit, tryCounter, handler, started, emitted,
                   ret, fires, manual, opens, consec, clean>>
    /\ UNCHANGED <<mutex, epc, sec, sections, blocked, sent, called, chansClosed, worker,
                   destroys, destroyRet>>
    /\ UNCHANGED <<lvars, xvars, rvars, kvars>>

\* where Fire goes when the critical section of the kind given is left; after
\* getOrSetState, by Fire's tests of the State that getOrSetState returned
AfterSection(u, kind) ==
    CASE kind = "getOrSetState" ->
            IF AfterIsolateTest(circuit[u].State) = "handleOpen" THEN "handleOpen"
            ELSE IF circuit[u].State = Open THEN "tryReset" ELSE LoopHead(0)
      [] kind = "tryReset" ->
            IF tryResetResult(\E ID \in IDs : Has(ID), FALSE) THEN LoopHead(0) ELSE "handleOpen"
      [] OTHER -> "idle"

\* a slip in Fire: the mutex taken for getOrSetState is kept while trigger runs
HolderKept(u) == IF epc[u] = "getOrSetState" /\ AfterSection(u, epc[u]) = "start" THEN u ELSE "none"

\* who holds the mutex when its holder u has run the deferred mutex.Unlock()
HolderAfterUnlock(u) == "none"

\* the deferred mutex.Unlock(): RunCritical returns
MutexUnlock(u) ==
    /\ epc[u] \in Kinds
    /\ todo[u] = << >>
    /\ mutex' = IF mutex = u THEN HolderAfterUnlock(u) ELSE mutex
    /\ epc' = [epc EXCEPT ![u] = "out"]
    /\ sec' = [sec EXCEPT ![u] = 0]
    /\ IF u \in Admins
         THEN UNCHANGED <<pc, circuit, tryCounter, handler, started>>
         ELSE IF epc[u] \in {"handleFail", "handleSuccess"}
                THEN Return(u)
                ELSE /\ pc' = [pc EXCEPT ![u] = AfterSection(u, epc[u])]
                     /\ UNCHANGED <<circuit, tryCounter, handler, started>>
    /\ UNCHANGED <<lookup, now, threshold, retry, emitted, ret, fires, manual, opens, consec,
                   clean>>
    /\ UNCHANGED <<todo, sections, blocked, sent, called, commits, chansClosed, worker,
                   destroys, destroyRet>>
    /\ UNCHANGED <<lvars, xvars, rvars, kvars>>

\* fn(circuit) on a nil circuit: the panic unwinds through the deferred Unlock
ClosureFaults(u) ==
    /\ epc[u] \in Kinds
    /\ todo[u] # << >>
    /\ Head(todo[u]).op = "panic"
    /\ mutex' = IF mutex = u THEN "none" ELSE mutex
    /\ epc' = [epc EXCEPT ![u] = "out"]
    /\ sec' = [sec EXCEPT ![u] = 0]
    /\ todo' = [todo EXCEPT ![u] = << >>]
    /\ UNCHANGED bvars
    /\ UNCHANGED <<sections, blocked, sent, called, commits, chansClosed, worker, destroys,
                   destroyRet>>
    /\ UNCHANGED <<lvars, xvars, rvars, kvars>>

\* Fire's handleOpen closure reaches its send, outside every critical section
HandleOpenStarts(u, ID) ==
    /\ u \in Callers
    /\ epc[u] = "out"
    /\ pc[u] = "handleOpen"
    /\ epc' = [epc EXCEPT ![u] = "handleOpen"]
    /\ todo' = [todo EXCEPT ![u] = <<SendStep(ID, "Fallback")>>]
    /\ UNCHANGED bvars
    /\ UNCHANGED <<mutex, sec, sections, blocked, sent, called, commits, chansClosed, worker,
                   destroys, destroyRet>>
    /\ UNCHANGED <<lvars, xvars, rvars, kvars>>

\* Fire's handleOpen closure returns the circuit-open error
HandleOpenReturns(u) ==
    /\ epc[u] = "handleOpen"
    /\ todo[u] = << >>
    /\ epc' = [epc EXCEPT ![u] = "out"]
    /\ Return(u)
    /\ UNCHANGED <<lookup, now, threshold, retry, emitted, ret, fires, manual, opens, consec,
                   clean>>
    /\ UNCHANGED <<mutex, todo, sec, sections, blocked, sent, called, commits, chansClosed,
                   worker, destroys, destroyRet>>
    /\ UNCHANGED <<lvars, xvars, rvars, kvars>>

\* an event as the logs keep it: the critical section it was sent from, 0 for none
Logged(u) == [ev |-> Head(todo[u]).ev, sec |-> sec[u]]

\* a goroutine reaches a send on circuitChan or fallbackChan and waits for the
\* receiver; on a closed channel the send panics: the goroutine is gone, the
\* deferred Unlock has run
ChanSend(u) ==
    /\ epc[u] \in Kinds \cup {"handleOpen"}
    /\ todo[u] # << >>
    /\ Head(todo[u]).op = "send"
    /\ ~blocked[u]
    /\ IF chansClosed
         THEN /\ epc' = [epc EXCEPT ![u] = "dead"]
              /\ mutex' = IF mutex = u THEN "none" ELSE mutex
              /\ UNCHANGED <<blocked, sent>>
         ELSE /\ blocked' = [blocked EXCEPT ![u] = TRUE]
              /\ sent' = Append(sent, Logged(u))
              /\ UNCHANGED <<epc, mutex>>
    /\ UNCHANGED bvars
    /\ UNCHANGED <<todo, sec, sections, called, commits, chansClosed, worker, destroys,
                   destroyRet>>
    /\ UNCHANGED <<lvars, xvars, rvars, kvars>>

\* a goroutine waiting in a send when Destroy closes the channel: the send panics
ChanSendClosed(u) ==
    /\ blocked[u]
    /\ chansClosed
    /\ blocked' = [blocked EXCEPT ![u] = FALSE]
    /\ epc' = [epc EXCEPT ![u] = "dead"]
    /\ mutex' = IF mutex = u THEN "none" ELSE mutex
    /\ UNCHANGED bvars
    /\ UNCHANGED <<todo, sec, sections, sent, called, commits, chansClosed, worker, destroys,
                   destroyRet>>
    /\ UNCHANGED <<lvars, xvars, rvars, kvars>>

\* handleEvents, cases f := <-fallbackChan and c := <-circuitChan: the select takes
\* the message of one waiting sender and the callback of its kind runs
handleEvents(u) ==
    /\ worker = "running"
    /\ ~chansClosed
    /\ blocked[u]
    /\ called' = Append(called, Logged(u))
    /\ blocked' = [blocked EXCEPT ![u] = FALSE]
    /\ todo' = [todo EXCEPT ![u] = Tail(@)]
    /\ UNCHANGED bvars
    /\ UNCHANGED <<mutex, epc, sec, sections, sent, commits, chansClosed, worker, destroys,
                   destroyRet>>
    /\ UNCHANGED <<lvars, xvars, rvars, kvars>>

\* handleEvents once the channels are closed: every case of the select is ready.
\* case <-exit returns; a receive from the closed fallbackChan gives fallbackChan{}
\* and runs fallback(""), one from the closed circuitChan gives circuitChan{} with
\* state 0 and runs closed(""): the worker has "strayed"
handleEventsClosed ==
    /\ chansClosed
    /\ \/ worker = "running" /\ worker' = "strayed"
       \/ worker \in {"running", "strayed"} /\ worker' = "returned"
    /\ UNCHANGED bvars
    /\ UNCHANGED <<mutex, epc, todo, sec, sections, blocked, sent, called, commits,
                   chansClosed, destroys, destroyRet>>
    /\ UNCHANGED <<lvars, xvars, rvars, kvars>>

\* Destroy: close(exit), close(circuitChan), close(fallbackChan); the close of a
\* closed channel panics
Destroy ==
    /\ destroys < MaxDestroys
    /\ destroys' = destroys + 1
    /\ IF chansClosed
         THEN /\ destroyRet' = "panic"
              /\ UNCHANGED chansClosed
         ELSE /\ destroyRet' = "ok"
              /\ chansClosed' = TRUE
    /\ UNCHANGED bvars
    /\ UNCHANGED <<mutex, epc, todo, sec, sections, blocked, sent, called, commits, worker>>
    /\ UNCHANGED <<lvars, xvars, rvars, kvars>>

EventNext ==
    \/ Tick
    \/ Destroy
    \/ handleEventsClosed
    \/ \E u \in Users :
          \/ \E ID \in IDs, kind \in Kinds : MutexLock(u, ID, kind)
          \/ \E ID \in IDs : HandleOpenStarts(u, ID)
          \/ CacheSet(u)
          \/ MutexUnlock(u)
          \/ ClosureFaults(u)
          \/ HandleOpenReturns(u)
          \/ ChanSend(u)
          \/ ChanSendClosed(u)
          \/ handleEvents(u)
    \/ \E p \in Callers :
          \/ Start(p)
          \/ Timeout(p)
          \/ Result(p)

EventSpecInit ==
    /\ \E t \in Thresholds : BreakerInit(t, 1)
    /\ LockInit(1, {})
    /\ RedLockInit([retryCount |-> 1])
    /\ AttemptInit(FALSE)
    /\ OtherInit

EventSpec == EventSpecInit /\ [][EventNext]_vars

\* ---- a callback that calls back into the breaker
\* handleEvents runs the callbacks itself (641-651), so a callback that calls
\* Isolate(ID) runs RunCritical and the closure's sends in the worker's
\* goroutine, while nobody receives from the event channels

\* handleEvents takes the message of a waiting sender; the callback of its kind
\* starts and calls Isolate on the ID of the event
handleEventsNested(u) ==
    /\ worker = "running"
    /\ ~chansClosed
    /\ blocked[u]
    /\ called' = Append(called, Logged(u))
    /\ blocked' = [blocked EXCEPT ![u] = FALSE]
    /\ todo' = [todo EXCEPT ![u] = Tail(@)]
    /\ worker' = "callback"
    /\ UNCHANGED bvars
    /\ UNCHANGED <<mutex, epc, sec, sections, sent, commits, chansClosed, destroys, destroyRet>>
    /\ UNCHANGED <<lvars, xvars, rvars, kvars>>

\* the callback's Isolate: RunCritical takes the mutex in the worker's goroutine
NestedLock ==
    /\ worker = "callback"
    /\ MutexFree
    /\ mutex' = "w"
    /\ worker' = "locked"
    /\ UNCHANGED bvars
    /\ UNCHANGED <<epc, todo, sec, sections, blocked, sent, called, commits, chansClosed,
                   destroys, destroyRet>>
    /\ UNCHANGED <<lvars, xvars, rvars, kvars>>

\* the callback's Isolate: the closure finds the record of the event's ID and
\* reaches its send of the Open event on circuitChan, whose only receiver is the
\* goroutine that sends; on a closed channel the send panics
NestedSend ==
    /\ worker = "locked"
    /\ IF chansClosed
         THEN /\ worker' = "dead"
              /\ mutex' = "none"
         ELSE /\ worker' = "selfSend"
              /\ UNCHANGED mutex
    /\ UNCHANGED bvars
    /\ UNCHANGED <<epc, todo, sec, sections, blocked, sent, called, commits, chansClosed,
                   destroys, destroyRet>>
    /\ UNCHANGED <<lvars, xvars, rvars, kvars>>

NestedNext ==
    \/ Tick
    \/ Destroy
    \/ handleEventsClosed
    \/ NestedLock
    \/ NestedSend
    \/ \E u \in Users :
          \/ \E ID \in IDs, kind \in Kinds : MutexLock(u, ID, kind)
          \/ \E ID \in IDs : HandleOpenStarts(u, ID)
          \/ CacheSet(u)
          \/ MutexUnlock(u)
          \/ ClosureFaults(u)
          \/ HandleOpenReturns(u)
          \/ ChanSend(u)
          \/ ChanSendClosed(u)
          \/ handleEvents(u)
          \/ handleEventsNested(u)
    \/ \E p \in Callers :
          \/ Start(p)
          \/ Timeout(p)
          \/ Result(p)

NestedSpec == EventSpecInit /\ [][NestedNext]_vars

\* ------------------------------------- the constructors and the backoff policies
\* (schema.go NewCircuitBreaker, NewCircuitBreakerDynamic, initCircuitBreaker;
\* package policies: Fixed, Exponential)
\*
\* A time.Duration is an int64 of nanoseconds and a float64 carries 53 bits.  The
\* model counts durations in milliseconds and cuts both widths by 39 bits: a
\* duration has 25 bits and a float 14, so the largest duration, the integers a
\* float holds exactly and the policies' defaults lie as they do in the code
\* (10 s < 2^14 ms as 10 s < 2^53 ns), and the spacing of the floats below the
\* largest duration is 1024 in both.

MaxCalls == 4      \* Duration() calls made on a policy

\* math.MaxInt64 and math.MinInt64, at 25 bits
MaxInt64 == 16777215
MinInt64 == -16777216

\* the bits of a float's significand
MantissaBits == 14

\* the options the constructors are called with: the fields the option functions
\* assign and the values they are given
CbOptionValues == [gracePeriodMs |-> 1, threshold |-> 0, timeoutMs |-> 1000, retry |-> 0]
Mins == {0, 200, 16387, 704000}
Maxs == {100, 1600, 20000, 1000000, MaxInt64}
Factors == {-3, -2, 0, 1, 3}
WaitDurations == {0, 300, 500}

\* the functions NewCircuitBreakerDynamic is given, by what they return
FnTypes == {"valueError", "value", "valueValue"}

RECURSIVE Pow2(_)
Pow2(n) == IF n = 0 THEN 1 ELSE 2 * Pow2(n - 1)

RECURSIVE IntPow(_, _)
IntPow(x, n) == IF n = 0 THEN 1 ELSE x * IntPow(x, n - 1)

Abs(x) == IF x < 0 THEN -x ELSE x

\* the spacing of the floats around a: the least power of two u with a < 2^14 * u
RECURSIVE Ulp(_, _)
Ulp(a, u) == IF a < Pow2(MantissaBits) * u THEN u ELSE Ulp(a, 2 * u)

\* float64(x), and the rounding of an exact result of float arithmetic: the
\* nearest float, the one with the even significand on a tie
Float64(x) ==
    LET a == Abs(x)
        u == Ulp(a, 1)
        q == a \div u
        r == a % u
        m == IF 2 * r < u THEN q
             ELSE IF 2 * r > u THEN q + 1
             ELSE IF q % 2 = 0 THEN q ELSE q + 1
    IN  IF x < 0 THEN -(m * u) ELSE m * u

\* const maxInt64 = float64(math.MaxInt64 - 512)
maxInt64 == Float64(MaxInt64 - 512)

\* math.Pow(factor, float64(attempt)) for an integral factor
MathPow(factor, attempt) == Float64(IntPow(factor, attempt))

\* time.Duration(durf) for durf <= maxInt64: the value itself when int64 holds it;
\* a value below the range converts to the smallest int64 on every port of Go
ToDuration(durf) == IF durf < MinInt64 THEN MinInt64 ELSE durf

\* ---- Fixed
Fixed(WaitDuration) == [NoPolicy EXCEPT !.type = "Fixed", !.WaitDuration = WaitDuration]

\* Fixed.Duration with the zero test left out
FixedWaitDuration(b) == b.WaitDuration

\* (b *Fixed) Duration()
FixedDuration(b) == IF b.WaitDuration = 0 THEN 300 ELSE b.WaitDuration

\* ---- Exponential
exponentialDefaults == [min |-> 100, max |-> 10000, factor |-> 2, attempt |-> 0]

\* the option lists of NewExponential, as the fields Min, Max and Factor set
ExponentialOptions ==
    { [f \in D |-> o[f]] :
        D \in SUBSET {"min", "max", "factor"},
        o \in [min : Mins, max : Maxs, factor : Factors] }

\* NewExponential: the defaults, then the options, then the test of min against max
NewExponential(options) ==
    LET e == options @@ exponentialDefaults
    IN  IF e.min > e.max
        THEN [err |-> "error", e |-> NoPolicy]
        ELSE [err |-> "nil",
              e |-> [NoPolicy EXCEPT !.type = "Exponential", !.min = e.min, !.max = e.max,
                                     !.factor = e.factor, !.attempt = e.attempt]]

\* (b *Exponential) Duration(): the value returned
ExponentialDuration(b) ==
    LET minf == Float64(b.min)
        durf == Float64(minf * MathPow(b.factor, b.attempt))
        dur == ToDuration(durf)
    IN  IF durf > maxInt64 THEN b.max
        ELSE IF dur < b.min THEN b.min
        ELSE IF dur > b.max THEN b.max
        ELSE dur

\* ---- the breaker
\* new(CircuitBreaker) and new(CircuitBreakerDynamic): every field has its zero value
newCircuitBreaker == [options |-> Nil]
newCircuitBreakerDynamic == [CircuitBreaker |-> Nil, fn |-> "nil"]

\* the fields initCircuitBreaker assigns before it runs the options
optionsDefaults ==
    [gracePeriodMs |-> 500, threshold |-> 1, timeoutMs |-> 3000, retry |-> 3,
     backoff |-> Fixed(300)]

\* the option lists of the breaker constructors, as the fields they set
CbOptions ==
    { [f \in D |-> o[f]] :
        D \in SUBSET {"gracePeriodMs", "threshold", "timeoutMs", "retry", "backoff"},
        o \in { CbOptionValues @@ [backoff |-> b] : b \in {Fixed(500)} } }

\* initCircuitBreaker(cb, cache, lock, options...): cb.cache = cache dereferences
\* cb, cb.gracePeriodMs = 500 dereferences cb.options; a nil pointer among them
\* is a run-time panic
initCircuitBreaker(cb, options) ==
    IF cb = Nil THEN [fault |-> TRUE, options |-> Nil]
    ELSE IF cb[1].options = Nil THEN [fault |-> TRUE, options |-> Nil]
    ELSE [fault |-> FALSE, options |-> Ref(options @@ optionsDefaults)]

\* NewCircuitBreaker(cache, lock, options...)
NewCircuitBreaker(options) ==
    /\ cbRet = "none"
    /\ LET init == initCircuitBreaker(Ref(newCircuitBreaker), options)
       IN  /\ cbRet' = IF init.fault THEN "panic" ELSE "ok"
           /\ cbOptions' = init.options
    /\ cbArgs' = options
    /\ UNCHANGED <<boArgs, boErr, backoff, durations>>
    /\ UNCHANGED <<bvars, lvars, xvars, evars, rvars>>

\* NewCircuitBreakerDynamic(fn, cache, lock, options...)
NewCircuitBreakerDynamic(fn, options) ==
    /\ cbRet = "none"
    /\ IF fn # "valueError"
       THEN /\ cbRet' = "error"
            /\ cbOptions' = Nil
       ELSE LET cb == [newCircuitBreakerDynamic EXCEPT !.fn = fn]
                init == initCircuitBreaker(cb.CircuitBreaker, options)
            IN  /\ cbRet' = IF init.fault THEN "panic" ELSE "ok"
                /\ cbOptions' = init.options
    /\ cbArgs' = options
    /\ UNCHANGED <<boArgs, boErr, backoff, durations>>
    /\ UNCHANGED <<bvars, lvars, xvars, evars, rvars>>

\* &policies.Fixed{WaitDuration: w}
NewFixed(w) ==
    /\ boErr = "none"
    /\ backoff' = Fixed(w)
    /\ boErr' = "nil"
    /\ UNCHANGED <<boArgs, durations>>
    /\ UNCHANGED <<cbArgs, cbRet, cbOptions>>
    /\ UNCHANGED <<bvars, lvars, xvars, evars, rvars>>

\* policies.NewExponential(options...)
NewExponentialCall(options) ==
    /\ boErr = "none"
    /\ backoff' = NewExponential(options).e
    /\ boErr' = NewExponential(options).err
    /\ boArgs' = options
    /\ UNCHANGED durations
    /\ UNCHANGED <<cbArgs, cbRet, cbOptions>>
    /\ UNCHANGED <<bvars, lvars, xvars, evars, rvars>>

\* a call of Duration() on the Fixed policy
FixedDurationCall ==
    /\ backoff.type = "Fixed"
    /\ Len(durations) < MaxCalls
    /\ durations' = Append(durations, FixedDuration(backoff))
    /\ UNCHANGED <<boArgs, boErr, backoff>>
    /\ UNCHANGED <<cbArgs, cbRet, cbOptions>>
    /\ UNCHANGED <<bvars, lvars, xvars, evars, rvars>>

\* a call of Duration() on the Exponential policy: b.attempt++
ExponentialDurationCall ==
    /\ backoff.type = "Exponential"
    /\ Len(durations) < MaxCalls
    /\ durations' = Append(durations, ExponentialDuration(backoff))
    /\ backoff' = [backoff EXCEPT !.attempt = @ + 1]
    /\ UNCHANGED <<boArgs, boErr>>
    /\ UNCHANGED <<cbArgs, cbRet, cbOptions>>
    /\ UNCHANGED <<bvars, lvars, xvars, evars, rvars>>

BuildNext ==
    \/ \E options \in CbOptions : NewCircuitBreaker(options)
    \/ \E fn \in FnTypes, options \in CbOptions : NewCircuitBreakerDynamic(fn, options)
    \/ \E w \in WaitDurations : NewFixed(w)
    \/ \E options \in ExponentialOptions : NewExponentialCall(options)
    \/ FixedDurationCall
    \/ ExponentialDurationCall

BuildSpecInit ==
    /\ BreakerInit(1, 1)
    /\ LockInit(1, {})
    /\ RedLockInit([retryCount |-> 1])
    /\ AttemptInit(FALSE)
    /\ OtherInit

BuildSpec == BuildSpecInit /\ [][BuildNext]_vars

\* ------------------------------------- trigger with the breaker's backoff policy
\* Fires made one after another on a breaker built with BackoffMs(e), e an
\* Exponential policy: trigger's loop head calls breaker.backoff.Duration()
\* when it arms start for a retry.  The policy is the breaker's one policy
\* object, shared by every Fire; durations lists the values Duration() returned.

BackoffRetries == {2, 3}

\* the policies NewExponential() and NewExponential(Factor(3)) build
BackoffPolicies ==
    { NewExponential(o).e :
        o \in { o \in ExponentialOptions :
                   /\ DOMAIN o \subseteq {"factor"}
                   /\ "factor" \in DOMAIN o => o.factor = 3 } }

\* Fire, its first step, called when the Fire before has returned
FireInTurn(p, ID) ==
    /\ \A q \in Callers : pc[q] = "idle"
    /\ GetOrSetState(p, ID)

\* trigger, case <-timeout, and the loop head after it: with result nil and
\* tryCounter past 0, start = time.After(breaker.backoff.Duration())
TimeoutBackoff(p) ==
    /\ pc[p] = "select"
    /\ tryCounter' = [tryCounter EXCEPT ![p] = @ + 1]
    /\ handler' = [handler EXCEPT ![p] = "failTimeout"]
    /\ pc' = [pc EXCEPT ![p] = LoopHead(tryCounter[p] + 1)]
    /\ IF LoopHead(tryCounter[p] + 1) = "start"
         THEN /\ durations' = Append(durations, ExponentialDuration(backoff))
              /\ backoff' = [backoff EXCEPT !.attempt = @ + 1]
         ELSE UNCHANGED <<backoff, durations>>
    /\ Out(<< >>, "none")
    /\ UNCHANGED <<lookup, now, threshold, retry, circuit, started, fires, manual,
                   consec, clean>>
    /\ UNCHANGED <<cbArgs, cbRet, cbOptions, boArgs, boErr>>
    /\ UNCHANGED <<lvars, xvars, evars, rvars>>

BackoffNext ==
    \/ Tick
    \/ \E p \in Callers, ID \in IDs :
          \/ FireInTurn(p, ID)
          \/ TestIsolate(p, ID)
          \/ TestOpen(p, ID)
          \/ TryReset(p, ID)
          \/ HandleOpen(p, ID)
          \/ HandleFail(p, ID)
          \/ HandleSuccess(p, ID)
    \/ \E p \in Callers :
          \/ Start(p)
          \/ TimeoutBackoff(p)
          \/ Result(p)

BackoffSpecInit ==
    /\ \E t \in Thresholds, r \in BackoffRetries : BreakerInit(t, r)
    /\ LockInit(1, {})
    /\ RedLockInit([retryCount |-> 1])
    /\ AttemptInit(FALSE)
    /\ EventInit
    /\ cbArgs = << >>
    /\ cbRet = "none"
    /\ cbOptions = Nil
    /\ boArgs = << >>
    /\ boErr = "none"
    /\ backoff \in BackoffPolicies
    /\ durations = << >>

BackoffSpec == BackoffSpecInit /\ [][BackoffNext]_vars

\* ------------------------------------------------------------- the claims

\* the stored record of ID is Open and its grace period has not elapsed
OpenInGrace(ID) ==
    /\ Has(ID)
    /\ lookup[ID].State = Open
    /\ SinceMs(lookup[ID].OpenedAt) <= GracePeriodMs

\* C4: from a fresh record, while nothing but failed Fires has happened, the
\* record is Closed with failures = the number of failures handled and no Open
\* event as long as that number is at most threshold, and from the
\* (threshold+1)-th failure on it is Open with opened_at set and exactly one
\* Open event.
C4_TripsAfterThresholdPlusOne ==
    \A ID \in IDs :
        (clean /\ Has(ID)) =>
            IF consec > threshold
              THEN /\ lookup[ID].State = Open
                   /\ lookup[ID].OpenedAt # ZeroTime
                   /\ opens = 1
              ELSE /\ lookup[ID].State = Closed
                   /\ lookup[ID].Failures = consec
                   /\ opens = 0

\* C4's case: threshold 1, two failure commits and nothing else: tripped
C4_Witness ==
    \E ID \in IDs :
        /\ clean /\ Has(ID) /\ threshold = 1 /\ consec = 2
        /\ lookup[ID].State = Open

\* C5: the record goes from Closed to Open only when more than threshold failures
\* were committed since the last success commit.
C5_OpensOnConsecutiveFailuresOnly ==
    [][\A ID \in IDs :
          (Has(ID) /\ lookup[ID].State = Closed /\ lookup'[ID].State = Open)
              => consec' > threshold]_vars

\* C6: while the record is Open and its grace period has not elapsed, no Fire
\* starts the wrapped operation.
C6_NoExecutionWhileOpen ==
    [][\A p \in Callers : Start(p) => \A ID \in IDs : ~OpenInGrace(ID)]_vars

\* C7: the Fire whose tryReset moves the record from Open to HalfOpen does not
\* short-circuit: it goes on to run the wrapped operation.
C7_HalfOpenFireFallsThrough ==
    [][\A p \in Callers, ID \in IDs :
          (TryReset(p, ID) /\ Has(ID) /\ moveToHalfOpen(lookup[ID]))
              => pc'[p] # "handleOpen"]_vars

\* C8: a record in state Isolate leaves it only by Reset.
C8_IsolateUntilReset ==
    [][\A ID \in IDs :
          (Has(ID) /\ lookup[ID].State = Isolate /\ lookup'[ID].State # Isolate)
              => ResetID(ID)]_vars

\* C9: a Fire whose dispatch reads Isolate, or whose tryReset reads Open within
\* the grace period, goes to the short circuit without touching the store or
\* sending an event; on the short circuit the operation was never launched, and
\* the Fire ends it by sending exactly one Fallback event, leaving the store as
\* it is and returning the circuit-open error.  A Fire sends no event before.
C9_ShortCircuit ==
    [][\A p \in Callers, ID \in IDs :
          /\ (TestIsolate(p, ID) /\ circuit'[p].State = Isolate)
                => (pc'[p] = "handleOpen" /\ lookup' = lookup /\ emitted' = << >>)
          /\ (TryReset(p, ID) /\ OpenInGrace(ID))
                => (pc'[p] = "handleOpen" /\ lookup' = lookup /\ emitted' = << >>)
          /\ (pc[p] \in {"idle", "l693", "l697"} /\ pc'[p] # pc[p])
                => emitted' = << >>
          /\ pc[p] = "handleOpen" => started[p] = 0
          /\ (pc[p] = "handleOpen" /\ pc'[p] # "handleOpen")
                => /\ lookup' = lookup
                   /\ emitted' = <<Ev(ID, "Fallback")>>
                   /\ ret' = "circuitOpen"
                   /\ pc'[p] = "idle"]_vars

\* C9's case: a Fire has returned the circuit-open error and the record is
\* Isolate, or Open within its grace period
C9_Witness ==
    \E p \in Callers, ID \in IDs :
        /\ ret = "circuitOpen" /\ pc[p] = "idle" /\ Has(ID)
        /\ (lookup[ID].State = Isolate \/ OpenInGrace(ID))
        /\ emitted = <<Ev(ID, "Fallback")>>

\* C10: a Closed record has failures <= threshold.
C10_ClosedWithinThreshold ==
    \A ID \in IDs :
        (Has(ID) /\ lookup[ID].State = Closed) => lookup[ID].Failures <= threshold

\* C10's case: a Closed record that has counted failures up to the threshold
C10_Witness ==
    \E ID \in IDs :
        /\ Has(ID) /\ lookup[ID].State = Closed
        /\ threshold = 1 /\ lookup[ID].Failures = 1

\* the processes executing their critical-section callable
InFn == {q \in Procs : lpc[q] = "fn"}

\* C1: with at least one acquire attempt configured, every instance up and no
\* lock key expired (critical sections shorter than the TTL), at most one process
\* executes its critical-section callable at a time.
C1_MutualExclusion ==
    (down = {} /\ ~expired) => Cardinality(InFn) <= 1

\* C2: an unlockInstance, at the end of RunCritical or after a failed acquire
\* attempt, deletes a lock key only if it was set by the process that unlocks.
C2_ReleaseOnlyOwnKey ==
    [][\A q \in Procs, c \in Clients, ID \in IDs :
          (UnlockInstance(q, c, ID) /\ keys'[c] # keys[c]) => keys[c].by = q]_vars

\* C3: the callable runs only after lock returned without error.
C3_NoCallableWithoutLock ==
    \A q \in Procs : lpc[q] = "fn" => lockErr[q] = "nil"

\* C11: every step that moves a stored record from another state into Closed
\* stores failures = 0 and sends exactly one Closed event and nothing else; so a
\* success handled on a HalfOpen record leaves (Closed, failures 0).
C11_ClosedResetsFailures ==
    [][\A ID \in IDs :
          (Has(ID) /\ lookup[ID].State # Closed /\ lookup'[ID].State = Closed)
              => /\ lookup'[ID].Failures = 0
                 /\ emitted' = <<Ev(ID, "Closed")>>]_vars

\* C11's case: a Fire has just returned its value after handleSuccess closed a
\* record that had been opened
C11_Witness ==
    \E ID \in IDs :
        /\ ret = "value" /\ emitted = <<Ev(ID, "Closed")>> /\ opens > 0
        /\ Has(ID) /\ lookup[ID] = [State |-> Closed, Failures |-> 0,
                                     OpenedAt |-> lookup[ID].OpenedAt]

\* C12: a record becomes HalfOpen only in a tryReset critical section that read it
\* Open with now - opened_at > grace period; a record becomes Open only with
\* opened_at = the time of that step, and keeps that opened_at while it is Open.
C12_HalfOpenOnlyAfterGrace ==
    [][\A ID \in IDs :
          Has(ID) =>
            /\ (lookup[ID].State # HalfOpen /\ lookup'[ID].State = HalfOpen)
                  => /\ lookup[ID].State = Open
                     /\ now - lookup[ID].OpenedAt > GracePeriodMs
                     /\ \E p \in Callers : TryReset(p, ID)
            /\ (lookup[ID].State # Open /\ lookup'[ID].State = Open)
                  => /\ lookup'[ID].OpenedAt = now
                     /\ \E p \in Callers : HandleFail(p, ID)
            /\ (lookup[ID].State = Open /\ lookup'[ID].State = Open)
                  => lookup'[ID].OpenedAt = lookup[ID].OpenedAt]_vars

\* C12's case: a tryReset has just moved a record to HalfOpen
C12_Witness ==
    \E ID \in IDs :
        /\ Has(ID) /\ lookup[ID].State = HalfOpen
        /\ emitted = <<Ev(ID, "HalfOpen")>>
        /\ now - lookup[ID].OpenedAt > GracePeriodMs

\* C13: Isolate and Reset on an ID with no stored record complete without fault,
\* store the record a fresh one would become, and return true.
C13_ManualOnMissingRecord ==
    [][\A ID \in IDs :
          /\ (IsolateID(ID) /\ ~Has(ID))
                => (ret' = "true" /\ lookup' = Set(ID, IsolateCircuit(NoCircuit)))
          /\ (ResetID(ID) /\ ~Has(ID))
                => (ret' = "true" /\ lookup' = Set(ID, ResetCircuit(NoCircuit)))]_vars

\* C14: on a stored record Reset leaves exactly (Closed, 0, no opened_at) and
\* Isolate changes the state to Isolate and nothing else; and what either leaves
\* is what a second application of it leaves.
C14_ManualIdempotent ==
    [][\A ID \in IDs :
          Has(ID) =>
            /\ ResetID(ID)
                  => /\ lookup'[ID] = [State |-> Closed, Failures |-> 0, OpenedAt |-> ZeroTime]
                     /\ ResetCircuit(lookup'[ID]) = lookup'[ID]
            /\ IsolateID(ID)
                  => /\ lookup'[ID].State = Isolate
                     /\ lookup'[ID].Failures = lookup[ID].Failures
                     /\ lookup'[ID].OpenedAt = lookup[ID].OpenedAt
                     /\ IsolateCircuit(lookup'[ID]) = lookup'[ID]]_vars

\* C14's case: Reset has just run on a record that had been opened
C14_Witness ==
    \E ID \in IDs :
        /\ ret = "true" /\ emitted = <<Ev(ID, "Closed")>> /\ opens > 0
        /\ Has(ID) /\ lookup[ID] = NoCircuit

\* C15: a Fire in which a store Get or Set fails ends there, returns the store
\* error and leaves the stored record as it was.
C15_StoreErrorAborts ==
    [][\A p \in Callers, ID \in IDs :
          StoreFails(p, ID)
              => (pc'[p] = "idle" /\ ret' = "storeErr" /\ lookup' = lookup)]_vars

\* the current attempt's result, sent before its timeout, is what trigger can receive
InTime(p) == box[p] # NoItem /\ ~box[p].late

\* C16: a timeout of an attempt leaves the store alone and sends nothing; a Fire
\* leaves trigger's loop with no result of an attempt that returned within its
\* timeout only after retry launches and retry timeouts, with the timeout
\* failure to handle; and handling it adds exactly 1 to failures of a Closed or
\* HalfOpen record.
C16_TimeoutFailureAfterRetries ==
    [][\A p \in Callers, ID \in IDs :
          /\ TimeoutAttempt(p) => (lookup' = lookup /\ emitted' = << >>)
          /\ (pc[p] = "select" /\ pc'[p] = "HANDLE" /\ ~(Receive(p) /\ InTime(p)))
                => /\ handler'[p] = "failTimeout"
                   /\ started'[p] = retry
                   /\ tryCounter'[p] = retry
          /\ (CommitFail(p, ID) /\ handler[p] = "failTimeout"
                /\ Has(ID) /\ lookup[ID].State \in {Closed, HalfOpen})
                => lookup'[ID].Failures = lookup[ID].Failures + 1]_vars

\* C17: when the current attempt returns within its timeout, its result is the
\* one trigger receives; a received result ends the loop with nothing more
\* launched; the handler is handleFail exactly when the received error is non-nil
\* and failCondition holds of it; handleFail returns that error and
\* handleSuccess returns the value.
C17_ResultEndsRetries ==
    [][\A p \in Callers, ID \in IDs :
          /\ (OperationReturns(p) /\ pc[p] = "select") => InTime(p)'
          /\ Receive(p)
                => /\ pc'[p] = "HANDLE"
                   /\ handler'[p] = "failErr" <=> box[p].err = "errFail"
                   /\ handler'[p] = "success" <=> box[p].err \in {"nil", "errPass"}
          /\ (pc[p] = "HANDLE" /\ pc'[p] # "HANDLE") => pc'[p] \in {"idle", "dead"}
          /\ (CommitFail(p, ID) /\ handler[p] = "failErr") => ret' = "opErr"
          /\ CommitSuccess(p, ID) => ret' = "value"]_vars

\* C18: trigger never receives the result of an attempt that has timed out.
C18_LateResultDiscarded ==
    [][\A p \in Callers : Receive(p) => ~box[p].late]_vars

\* C19: when the wrapped function panics while the record is Closed, the
\* handleFail run of the deferred func adds exactly 1 to failures, and it is the
\* only handleFail run made for its Fire.
C19_PanicCommittedOnce ==
    [][\A p \in Callers, ID \in IDs :
          (Panics(p, ID) /\ Has(ID) /\ lookup[ID].State = Closed)
              => /\ lookup'[ID].Failures = lookup[ID].Failures + 1
                 /\ failCommits'[p] = 1]_vars

\* C20: the dynamic breaker's fn returns a non-nil error exactly when the wrapped
\* function did, and otherwise returns the wrapped function's value.
C20_DynamicErrorIffReturned ==
    \A p \in Callers :
        (dynamic /\ box[p] # NoItem)
            => /\ box[p].err # "nil" <=> box[p].rawErr # "nil"
               /\ box[p].err # "nil" => box[p].err = box[p].rawErr
               /\ box[p].err = "nil" => box[p].res = box[p].rawRes

\* C21: Destroy is idempotent: a Destroy call on a breaker that has been
\* destroyed completes without fault and changes nothing of the breaker.
C21_DestroyIdempotent ==
    [][(chansClosed /\ destroys' = destroys + 1) =>
          /\ destroyRet' = "ok"
          /\ UNCHANGED <<chansClosed, worker, blocked, called>>]_vars

\* the entries of a log that were sent from critical sections
FromSections(log) == SelectSeq(log, LAMBDA e : e.sec # 0)

\* the sequence a is the start of the sequence b
IsPrefix(a, b) == Len(a) <= Len(b) /\ \A k \in DOMAIN a : a[k] = b[k]

\* C22: within one breaker that is not destroyed, the callbacks run in the order
\* their events were sent from critical sections, which is the order in which
\* the critical sections stored their records; the Open callback of a trip runs
\* before the Fallback callback of the same failure; every event sent has had its
\* callback run once, but for the sends still waiting for the worker.
C22_CallbacksInCommitOrder ==
    ~chansClosed =>
        /\ IsPrefix(FromSections(called), FromSections(sent))
        /\ Len(called) + Cardinality({u \in Users : blocked[u]}) = Len(sent)
        /\ \A j, k \in DOMAIN called :
              (j < k /\ called[j].sec # 0 /\ called[k].sec # 0) =>
                  /\ called[j].sec <= called[k].sec
                  /\ called[j].sec = called[k].sec =>
                        ~(called[j].ev.kind = "Fallback" /\ called[k].ev.kind = "Open")
        /\ \A j, k \in DOMAIN commits : j < k => commits[j] < commits[k]

\* C22's case: the Open and Fallback callbacks of one critical section have run,
\* then a callback of a later one, and both sections have stored their records
C22_Witness ==
    /\ ~chansClosed
    /\ \E j, k, l \in DOMAIN called :
          /\ j < k /\ k < l
          /\ called[j].ev.kind = "Open" /\ called[k].ev.kind = "Fallback"
          /\ called[j].sec # 0 /\ called[j].sec = called[k].sec
          /\ called[l].sec > called[k].sec
          /\ \E a, b \in DOMAIN commits :
                commits[a] = called[k].sec /\ commits[b] = called[l].sec

Tolerated == (Cardinality(Clients) - 1) \div 2

\* process q is deciding an attempt of the only RunCritical call made so far
DecidingAlone(q) == runs = 1 /\ lpc[q] = "lock" /\ pending[q] = {}

\* C23: an acquire attempt succeeds exactly when the set-if-absent succeeded on
\* at least floor(N/2)+1 of the N instances and the validity left is positive;
\* on a free lock key with at most f of 2f+1 instances failing every attempt has
\* its quorum, so acquire succeeds with the first attempt that leaves validity
\* (retryCount >= 1 gives it an attempt);
\* with f+1 instances failing lock never succeeds and returns its error after
\* exactly retryCount attempts.
C23_AcquireIffQuorumAndValidity ==
    [][\A q \in Procs :
          /\ (lpc[q] = "lock" /\ pending[q] = {} /\ lpc'[q] # "lock") =>
                /\ (lpc'[q] = "fn" /\ lockErr'[q] = "nil")
                      <=> (success[q] >= (Cardinality(Clients) \div 2) + 1
                           /\ validityTime'[q] > 0)
                /\ (lpc'[q] # "fn") => (lpc'[q] = "unlockRetry" /\ lockErr'[q] = lockErr[q])
          /\ (DecidingAlone(q) /\ Cardinality(down) <= Tolerated) =>
                /\ success[q] >= (Cardinality(Clients) \div 2) + 1
                /\ (lpc'[q] # "lock" /\ validityTime'[q] > 0) =>
                      (lpc'[q] = "fn" /\ lockErr'[q] = "nil")
          /\ (Cardinality(down) > Tolerated) =>
                /\ lockErr'[q] # "nil"
                /\ (lockErr[q] # "failed" /\ lockErr'[q] = "failed") => i'[q] = retryCount]_vars

\* C23's case: with one of three instances failing, the only caller so far has
\* acquired the lock in an attempt that left one millisecond of validity
C23_Witness ==
    \E q \in Procs :
        /\ runs = 1
        /\ Cardinality(down) = Tolerated
        /\ lpc[q] = "fn"
        /\ lockErr[q] = "nil"
        /\ validityTime[q] = 1
        /\ success[q] = Cardinality(Clients) - Tolerated

\* C24: a RedLock constructed without options has retryCount 3, retryDelayMs
\* 300, driftFactor 0.01 and ttlMs 500, so its lock gives up only after 3
\* attempts.
C24_RedLockDefaults ==
    rlOptions = << >> =>
        /\ retryCount = 3
        /\ retryDelayMs = 300
        /\ driftFactor = 1
        /\ ttlMs = 500
        /\ \A q \in Procs : lockErr[q] = "failed" => i[q] = 3

\* C25: constructing a static breaker with a cache, a lock and no options
\* completes without fault and yields a breaker with gracePeriodMs 500, threshold
\* 1, timeoutMs 3000, retry 3 and a Fixed(300 ms) backoff; the dynamic
\* constructor does the same for a function returning (value, error), and the
\* options passed override exactly the fields they name.
C25_ConstructorDefaults ==
    cbRet \notin {"none", "error"} =>
        /\ cbRet = "ok"
        /\ cbOptions = Ref(cbArgs @@ [gracePeriodMs |-> 500, threshold |-> 1,
                                      timeoutMs |-> 3000, retry |-> 3,
                                      backoff |-> Fixed(300)])

\* C26: for every exponential policy NewExponential accepts and every number of
\* calls, each Duration() result lies in [min, max], and the results are
\* non-decreasing until they reach max, after which they stay at max.
C26_ExponentialRangeMonotone ==
    backoff.type = "Exponential" =>
        \A k \in 1..Len(durations) :
            /\ backoff.min <= durations[k]
            /\ durations[k] <= backoff.max
            /\ k > 1 => durations[k - 1] <= durations[k]
            /\ (k > 1 /\ durations[k - 1] = backoff.max) => durations[k] = backoff.max

\* clamp(x, lo, hi) of the specification
Clamp(x, lo, hi) == IF x < lo THEN lo ELSE IF x > hi THEN hi ELSE x

\* C27: the n-th call of Duration() (n = 0, 1, 2, ...) on an exponential policy
\* returns clamp(min * factor^n, min, max) and advances the attempt counter by
\* exactly one per call; when the product exceeds the range of a duration the
\* result is max.
C27_ExponentialClamp ==
    backoff.type = "Exponential" =>
        /\ backoff.attempt = Len(durations)
        /\ \A k \in 1..Len(durations) :
              LET product == backoff.min * IntPow(backoff.factor, k - 1)
              IN  /\ durations[k] = Clamp(product, backoff.min, backoff.max)
                  /\ product > MaxInt64 => durations[k] = backoff.max

\* C28: NewExponential fails with an error exactly when, after the defaults (min
\* 100 ms, max 10 s, factor 2) are applied to the parameters not set, min > max;
\* otherwise it returns a policy whose first Duration() equals min, which is
\* 100 ms when the policy is constructed with no options.
C28_NewExponential ==
    LET e == boArgs @@ [min |-> 100, max |-> 10000, factor |-> 2]
    IN  (boErr # "none" /\ backoff.type # "Fixed") =>
            /\ boErr = "error" <=> e.min > e.max
            /\ boErr = "nil" =>
                  /\ backoff.type = "Exponential"
                  /\ Len(durations) >= 1 => durations[1] = e.min
                  /\ (Len(durations) >= 1 /\ boArgs = << >>) => durations[1] = 100

\* C29: Fixed.Duration() returns 300 ms when no wait duration is configured and
\* otherwise the configured duration, returns the same value on every call, and
\* changes no state of the policy.
C29_FixedDuration ==
    [][(backoff.type = "Fixed" /\ durations' # durations) =>
          /\ backoff' = backoff
          /\ Len(durations') = Len(durations) + 1
          /\ durations'[Len(durations')] =
                IF backoff.WaitDuration = 0 THEN 300 ELSE backoff.WaitDuration
          /\ \A k \in 1..Len(durations) : durations[k] = durations'[Len(durations')]]_vars

\* C29's case: a Fixed policy with no wait duration configured has been asked
\* twice and answered 300 ms both times
C29_Witness ==
    /\ backoff.type = "Fixed"
    /\ backoff.WaitDuration = 0
    /\ Len(durations) >= 2
    /\ durations[1] = 300
    /\ durations[2] = 300

\* the events of one kind among the events evs
CountIn(evs, kind) == Cardinality({k \in DOMAIN evs : evs[k].kind = kind})

\* caller p's step is a failure commit: the handleFail handler of its Fire runs
FailureCommit(p) ==
    pc[p] = "HANDLE" /\ handler[p] \in {"failErr", "failTimeout"} /\ pc'[p] # "HANDLE"

\* C31: a failure commit that finds the record absent or Open writes nothing to
\* the store, emits no Open and no Fallback event and returns the operation's
\* error; in every other state (Closed, HalfOpen, Isolate) it increments failures
\* by exactly 1, emits exactly one Fallback event, and moves to Open with an Open
\* event exactly when the new failures > threshold.
C31_FailureCommitEffect ==
    [][\A p \in Callers, ID \in IDs :
          FailureCommit(p) =>
              /\ ret' = FailError(handler[p])
              /\ (~Has(ID) \/ lookup[ID].State = Open) =>
                    /\ lookup' = lookup
                    /\ emitted' = << >>
              /\ (Has(ID) /\ lookup[ID].State # Open) =>
                    /\ lookup'[ID].Failures = lookup[ID].Failures + 1
                    /\ CountIn(emitted', "Fallback") = 1
                    /\ CountIn(emitted', "Closed") + CountIn(emitted', "HalfOpen") = 0
                    /\ IF lookup[ID].Failures + 1 > threshold
                         THEN /\ lookup'[ID].State = Open
                              /\ lookup'[ID].OpenedAt = now
                              /\ CountIn(emitted', "Open") = 1
                         ELSE /\ lookup'[ID].State = lookup[ID].State
                              /\ lookup'[ID].OpenedAt = lookup[ID].OpenedAt
                              /\ CountIn(emitted', "Open") = 0]_vars

\* C31's case: a failure commit has just moved an isolated record to Open, with
\* one Open and one Fallback event, and returned the operation's error
C31_Witness ==
    /\ ret = "opErr"
    /\ emitted = <<Ev("x", "Open"), Ev("x", "Fallback")>>
    /\ Has("x")
    /\ lookup["x"].State = Open
    /\ lookup["x"].OpenedAt = now
    /\ manual > 0

\* caller p's step is a success commit: the handleSuccess handler of its Fire runs
SuccessCommit(p) == pc[p] = "HANDLE" /\ handler[p] = "success" /\ pc'[p] # "HANDLE"

\* C32: a first Fire on an ID with no record persists (Closed, 0, opened_at
\* unset) before the operation runs, and a success commit that finds the record
\* Closed or absent writes nothing and emits no event and returns the
\* operation's value.
C32_ColdStart ==
    [][\A p \in Callers, ID \in IDs :
          /\ (pc[p] = "idle" /\ pc'[p] # "idle") =>
                /\ Has(ID)' /\ started'[p] = 0 /\ emitted' = << >>
                /\ IF Has(ID)
                     THEN lookup' = lookup
                     ELSE lookup'[ID] = [State |-> Closed, Failures |-> 0,
                                         OpenedAt |-> ZeroTime]
          /\ started'[p] > started[p] => Has(ID)
          /\ SuccessCommit(p) =>
                /\ ret' = "value"
                /\ (~Has(ID) \/ lookup[ID].State = Closed) =>
                      /\ lookup' = lookup
                      /\ emitted' = << >>]_vars

\* C32's case: the first Fire on the ID has run the operation once and returned
\* its value; the record is the one the Fire created and no event was emitted
C32_Witness ==
    /\ fires = 1
    /\ manual = 0
    /\ ret = "value"
    /\ emitted = << >>
    /\ opens = 0
    /\ Has("x")
    /\ lookup["x"] = [State |-> Closed, Failures |-> 0, OpenedAt |-> ZeroTime]
    /\ \A p \in Callers : pc[p] = "idle"

\* C33: Destroy prevents further sends: once Destroy has been called, no Fire,
\* Isolate, Reset or outcome commit on the breaker performs a send on a closed
\* event channel (no goroutine ends in the send-to-closed fault).
C33_NoSendAfterDestroy ==
    destroys > 0 => \A u \in Users : epc[u] # "dead"

\* C34: with retry >= 1 every Fire call eventually returns even if the wrapped
\* operation never returns: a Fire none of whose attempts has returned ends
\* after retry attempts, each ended by its timeout, with the timeout failure
\* committed and returned to the caller.
C34_FireReturnsThoughOperationHangs ==
    /\ [][\A p \in Attempters :
            (pc[p] = "HANDLE" /\ pc'[p] # "HANDLE" /\ stale[p] = started[p]) =>
                /\ handler[p] = "failTimeout"
                /\ started[p] = retry
                /\ tryCounter[p] = retry
                /\ failCommits'[p] = 1
                /\ ret' = "timeoutErr"]_vars
    /\ \A p \in Attempters : (pc[p] # "idle") ~> (pc[p] = "idle")

\* C34's case: a Fire with retry 2 has returned the timeout error while the
\* wrapped function is still running in both of its attempts
C34_Witness ==
    \E p \in Attempters :
        /\ retry = 2
        /\ pc[p] = "idle"
        /\ ret = "timeoutErr"
        /\ stale[p] = 2
        /\ failCommits[p] = 1

\* C35: in every reachable state a stored record in state Open or HalfOpen has
\* failures > threshold; so a failure committed while the record is HalfOpen
\* always returns it to Open with a fresh opened_at and emits an Open event,
\* whatever the threshold.
C35_OpenAboveThreshold ==
    /\ [](\A ID \in DOMAIN lookup :
            lookup[ID].State \in {Open, HalfOpen} => lookup[ID].Failures > threshold)
    /\ [][\A p \in Callers, ID \in IDs :
            (FailureCommit(p) /\ Has(ID) /\ lookup[ID].State = HalfOpen) =>
                /\ lookup'[ID].State = Open
                /\ lookup'[ID].OpenedAt = now
                /\ lookup'[ID].OpenedAt > lookup[ID].OpenedAt
                /\ CountIn(emitted', "Open") = 1]_vars

\* C35's case: with threshold 0 and no Isolate or Reset, the failure of a probe
\* has returned the HalfOpen record to Open: a second failure is counted and the
\* record was opened now
C35_Witness ==
    /\ threshold = 0
    /\ manual = 0
    /\ Has("x")
    /\ lookup["x"] = [State |-> Open, Failures |-> 2, OpenedAt |-> now]
    /\ emitted = <<Ev("x", "Open"), Ev("x", "Fallback")>>
    /\ opens = 2

\* the state a state-change event announces
StateOf(kind) ==
    CASE kind = "Closed" -> Closed
      [] kind = "Open" -> Open
      [] kind = "HalfOpen" -> HalfOpen

\* C36: whenever a Closed, Open or HalfOpen event is emitted by a Fire for an
\* ID, the corresponding state has been written to the store by the end of that
\* same critical section; no state-change event is emitted for a transition
\* whose store Set failed.
C36_EventMeansStored ==
    [][\A k \in DOMAIN emitted' :
          (pc' # pc /\ emitted'[k].kind \in {"Closed", "Open", "HalfOpen"}) =>
              /\ emitted'[k].ID \in DOMAIN lookup'
              /\ lookup'[emitted'[k].ID].State = StateOf(emitted'[k].kind)]_vars

\* C37: an event callback that itself calls Fire, Isolate or Reset on the same
\* breaker does not deadlock: the nested call never comes to wait for the mutex
\* of a goroutine that waits for the worker to receive its event, nor to wait
\* in a send that only the worker itself receives.
C37_NestedCallNoDeadlock ==
    /\ worker # "selfSend"
    /\ \A u \in Users : ~(worker = "callback" /\ mutex = u /\ blocked[u])

\* C38: for every configured retry count, including 0, a Fire that reaches the
\* execution pipeline ends by committing exactly one outcome (a success or a
\* failure) and returning it; the pipeline never finishes without an outcome to
\* commit.
C38_PipelineCommitsAnOutcome ==
    [][\A p \in Callers :
          (pc[p] = "HANDLE" /\ pc'[p] # "HANDLE") =>
              /\ handler[p] \in {"success", "failErr", "failTimeout"}
              /\ ret' \in {"value", "opErr", "timeoutErr"}]_vars

\* C39: if the record is Open, the wrapped operation succeeds from now on, and
\* Fires on the ID keep being issued one after another once the grace period has
\* elapsed (no Isolate), then the record eventually becomes Closed with
\* failures = 0: the circuit cannot remain Open or HalfOpen for ever.
C39_OpenEventuallyCloses ==
    \A ID \in IDs :
        (Has(ID) /\ lookup[ID].State \in {Open, HalfOpen})
            ~> (Has(ID) /\ lookup[ID].State = Closed /\ lookup[ID].Failures = 0)

\* C39's case: the first Fire after the grace period moved the record to
\* HalfOpen, and the second ran the operation and has just closed the circuit
C39_Witness ==
    /\ fires = 2
    /\ opens = 1
    /\ ret = "value"
    /\ emitted = <<Ev("x", "Closed")>>
    /\ Has("x")
    /\ lookup["x"].State = Closed
    /\ lookup["x"].Failures = 0

\* C40: within one Fire the first attempt starts with zero delay and each later
\* attempt is preceded by exactly one backoff.Duration() call; with an
\* exponential policy every Fire's retry sequence starts again at min, however
\* many retries earlier Fires on the same breaker performed.
C40_RetrySequenceRestarts ==
    [][\A p \in Callers :
         /\ (pc[p] = "start" /\ pc'[p] = "select" /\ tryCounter[p] = 0)
                => durations' = durations
         /\ (tryCounter'[p] = tryCounter[p] + 1 /\ pc'[p] = "start")
                => /\ Len(durations') = Len(durations) + 1
                   /\ tryCounter[p] = 0 => durations'[Len(durations')] = backoff.min]_vars
====
